---- MODULE Spec2Model ----
(***************************************************************************)
(* A model of rtl_bug_detection_llm_experiments/assess_bug_report_contents *)
(* (the diff chunker, the markdown code-block extractor and the bug-report *)
(* scorer built on them).                                                  *)
(*                                                                         *)
(* A text is a sequence of characters, a character a string that stands    *)
(* for it (the character itself, but for the backquote).                   *)
(* Line indices inside opcodes are Python's: 0-based, half open.           *)
(***************************************************************************)
EXTENDS Integers, Sequences, FiniteSets, TLC

\* ------------------------------------------------------------------ bounds

\* Lines per text in the all-pairs specification of the chunker.
MaxLines == 3

\* Lines of the old text in the edit-script specification of the chunker.
MaxEditLines == 5

\* Lines of the markdown text in the specification of the extractor.
MaxMdLines == 5

\* Lines of the base code in the specification of the scorer.
MaxScoreLines == 4

\* Closed code blocks of the bug report in the specification of the scorer.
MaxBlocks == 2

\* Characters of a line in the specification of the line normalization.
MaxLineLen == 5

\* Lines of the block that the insertion specification of the chunker inserts.
MaxInserted == 2

\* Chunks of the list in the specification of the reordering.
MaxChunks == 4

\* Characters of the text in the specification of the renaming.
MaxRenameLen == 4

\* Items of the mapping in the specification of the renaming.
MaxRenameKeys == 2

\* ------------------------------------------------------------- characters

NL == "\n"

\* The characters str.strip() and str.split() treat as whitespace.
Whitespace == {" ", "\t", NL}

\* ------------------------------------------------------ string primitives

RECURSIVE Flatten(_, _)
\* sep.join(parts), for parts a sequence of texts.
Flatten(parts, sep) ==
    IF parts = <<>> THEN <<>>
    ELSE IF Len(parts) = 1 THEN parts[1]
    ELSE parts[1] \o sep \o Flatten(Tail(parts), sep)

FirstNL(text) ==
    IF \E i \in 1..Len(text) : text[i] = NL
    THEN CHOOSE i \in 1..Len(text) :
            text[i] = NL /\ \A k \in 1..(i - 1) : text[k] # NL
    ELSE 0

RECURSIVE splitlines(_)
\* str.splitlines(): the lines of text without their line breaks; a final line
\* break opens no further line.
splitlines(text) ==
    IF text = <<>> THEN <<>>
    ELSE LET i == FirstNL(text) IN
         IF i = 0 THEN <<text>>
         ELSE <<SubSeq(text, 1, i - 1)>> \o splitlines(SubSeq(text, i + 1, Len(text)))

RECURSIVE lstrip(_)
lstrip(s) ==
    IF s # <<>> /\ s[1] \in Whitespace THEN lstrip(Tail(s)) ELSE s

RECURSIVE rstrip(_)
rstrip(s) ==
    IF s # <<>> /\ s[Len(s)] \in Whitespace
    THEN rstrip(SubSeq(s, 1, Len(s) - 1)) ELSE s

\* str.strip()
strip(s) == rstrip(lstrip(s))

RECURSIVE TokenEnd(_, _)
\* The index of the last character of the run of non-whitespace starting at i.
TokenEnd(s, i) ==
    IF i < Len(s) /\ s[i + 1] \notin Whitespace THEN TokenEnd(s, i + 1) ELSE i

RECURSIVE split(_)
\* str.split() without arguments: the maximal runs of non-whitespace.
split(s) ==
    LET t == lstrip(s) IN
    IF t = <<>> THEN <<>>
    ELSE LET e == TokenEnd(t, 1) IN
         <<SubSeq(t, 1, e)>> \o split(SubSeq(t, e + 1, Len(t)))

startswith(s, prefix) ==
    /\ Len(s) >= Len(prefix)
    /\ SubSeq(s, 1, Len(prefix)) = prefix

\* ---------------------------------------------------------- normalization

_normalize_whitespace(text) == Flatten(split(text), <<" ">>)

\* NormLine without the collapse of the whitespace inside the line.
NormLine_StripOnly(line) == strip(line)

\* One line as _normalize_lines normalizes it.
NormLine(line) == Flatten(split(strip(line)), <<" ">>)

_normalize_lines(text) ==
    LET ls == splitlines(text) IN [i \in 1..Len(ls) |-> NormLine(ls[i])]

\* ------------------------------------------ difflib.SequenceMatcher(None, a, b, autojunk=False)

RECURSIVE SuffixLen(_, _, _, _, _, _)
\* The length of the longest common run of a and b that ends at a[i], b[j]
\* (0-based) and stays inside a[alo:], b[blo:]: j2len of find_longest_match.
SuffixLen(a, b, i, j, alo, blo) ==
    IF i < alo \/ j < blo THEN 0
    ELSE IF a[i + 1] # b[j + 1] THEN 0
    ELSE 1 + SuffixLen(a, b, i - 1, j - 1, alo, blo)

\* find_longest_match without junk: the longest block, of those the one that
\* starts earliest in a, of those the one that starts earliest in b.
find_longest_match(a, b, alo, ahi, blo, bhi) ==
    LET ends == (alo..(ahi - 1)) \X (blo..(bhi - 1))
        len(e) == SuffixLen(a, b, e[1], e[2], alo, blo)
        hits == {e \in ends : len(e) > 0}
    IN  IF hits = {} THEN <<alo, blo, 0>>
        ELSE LET best == CHOOSE e \in hits :
                            \A f \in hits :
                                \/ len(f) < len(e)
                                \/ /\ len(f) = len(e)
                                   /\ \/ e[1] < f[1]
                                      \/ (e[1] = f[1] /\ e[2] <= f[2])
                 k == len(best)
             IN  <<best[1] - k + 1, best[2] - k + 1, k>>

RECURSIVE MatchQueue(_, _, _, _, _, _)
\* The blocks get_matching_blocks collects, sorted: the longest match of the
\* window, and recursively those left and right of it.
MatchQueue(a, b, alo, ahi, blo, bhi) ==
    LET m == find_longest_match(a, b, alo, ahi, blo, bhi)
        i == m[1]
        j == m[2]
        k == m[3]
    IN  IF k = 0 THEN <<>>
        ELSE (IF alo < i /\ blo < j THEN MatchQueue(a, b, alo, i, blo, j) ELSE <<>>)
             \o <<m>>
             \o (IF i + k < ahi /\ j + k < bhi
                 THEN MatchQueue(a, b, i + k, ahi, j + k, bhi) ELSE <<>>)

RECURSIVE Collapse(_, _)
\* get_matching_blocks' merge of adjacent blocks; cur is the block being grown.
Collapse(blocks, cur) ==
    IF blocks = <<>> THEN (IF cur[3] > 0 THEN <<cur>> ELSE <<>>)
    ELSE LET nxt == blocks[1] IN
         IF cur[1] + cur[3] = nxt[1] /\ cur[2] + cur[3] = nxt[2]
         THEN Collapse(Tail(blocks), <<cur[1], cur[2], cur[3] + nxt[3]>>)
         ELSE (IF cur[3] > 0 THEN <<cur>> ELSE <<>>) \o Collapse(Tail(blocks), nxt)

get_matching_blocks(a, b) ==
    Collapse(MatchQueue(a, b, 0, Len(a), 0, Len(b)), <<0, 0, 0>>)
        \o <<(<<Len(a), Len(b), 0>>)>>

RECURSIVE OpcodesFrom(_, _, _)
\* get_opcodes: i, j are where the previous block ended.
OpcodesFrom(blocks, i, j) ==
    IF blocks = <<>> THEN <<>>
    ELSE LET ai == blocks[1][1]
             bj == blocks[1][2]
             size == blocks[1][3]
             tag == IF i < ai /\ j < bj THEN "replace"
                    ELSE IF i < ai THEN "delete"
                    ELSE IF j < bj THEN "insert"
                    ELSE ""
         IN  (IF tag # "" THEN <<(<<tag, i, ai, j, bj>>)>> ELSE <<>>)
             \o (IF size > 0
                 THEN <<(<<"equal", ai, ai + size, bj, bj + size>>)>> ELSE <<>>)
             \o OpcodesFrom(Tail(blocks), ai + size, bj + size)

get_opcodes(a, b) == OpcodesFrom(get_matching_blocks(a, b), 0, 0)

\* seq[lo:hi], Python's slice of a sequence.
Slice(seq, lo, hi) == SubSeq(seq, lo + 1, hi)

\* ------------------------------------------------------------ the chunker

context_threshold == 3

\* StringDiff without the trimming of the joined sides.
StringDiff_Untrimmed(old_chunk, new_chunk) ==
    [old_version |-> Flatten(old_chunk, <<NL>>),
     new_version |-> Flatten(new_chunk, <<NL>>)]

StringDiff(old_chunk, new_chunk) ==
    [old_version |-> strip(Flatten(old_chunk, <<NL>>)),
     new_version |-> strip(Flatten(new_chunk, <<NL>>))]

\* The accumulators of get_str_diff_chunks before the first opcode.
ChunkerStart == [old |-> <<>>, new |-> <<>>, diffs |-> <<>>]

\* Flush, flushing only a chunk with lines on both sides.
Flush_BothSides(acc) ==
    IF acc.old # <<>> /\ acc.new # <<>>
    THEN [old |-> <<>>, new |-> <<>>,
          diffs |-> Append(acc.diffs, StringDiff(acc.old, acc.new))]
    ELSE acc

\* The pending chunk, flushed when there is one.
Flush(acc) ==
    IF acc.old # <<>> \/ acc.new # <<>>
    THEN [old |-> <<>>, new |-> <<>>,
          diffs |-> Append(acc.diffs, StringDiff(acc.old, acc.new))]
    ELSE acc

\* Extend, putting the lines of an equal segment on the old side only.
Extend_ContextOldOnly(acc, op, ol, nl) ==
    IF op[1] = "equal"
    THEN [acc EXCEPT !.old = @ \o Slice(ol, op[2], op[3])]
    ELSE [acc EXCEPT !.old = @ \o Slice(ol, op[2], op[3]),
                     !.new = @ \o Slice(nl, op[4], op[5])]

Extend(acc, op, ol, nl) ==
    [acc EXCEPT !.old = @ \o Slice(ol, op[2], op[3]),
                !.new = @ \o Slice(nl, op[4], op[5])]

\* IsSplit, splitting only after more than context_threshold lines.
IsSplit_Strict(op) == op[1] = "equal" /\ op[3] - op[2] > context_threshold

\* IsSplit, splitting after one line less than context_threshold.
IsSplit_OneLess(op) == op[1] = "equal" /\ op[3] - op[2] >= context_threshold - 1

\* An equal segment long enough to separate two chunks.
IsSplit(op) == op[1] = "equal" /\ op[3] - op[2] >= context_threshold

\* One iteration of the loop over the opcodes.
ChunkStep(acc, op, ol, nl) ==
    IF op[1] = "equal"
    THEN IF IsSplit(op) THEN Flush(acc) ELSE Extend(acc, op, ol, nl)
    ELSE Extend(acc, op, ol, nl)

\* PostFilter, removing only the chunks with two empty sides.
PostFilter_EmptyOnly(ds) ==
    SelectSeq(ds, LAMBDA d : d.old_version # <<>> \/ d.new_version # <<>>)

\* PostFilter, keeping every chunk.
NoFilter(ds) == ds

\* PostFilter, removing the chunks with an empty side too.
PostFilter_BothSides(ds) ==
    SelectSeq(ds, LAMBDA d : d.old_version # d.new_version
                             /\ d.old_version # <<>> /\ d.new_version # <<>>)

\* The returned list: the chunks whose two sides differ.
PostFilter(ds) == SelectSeq(ds, LAMBDA d : d.old_version # d.new_version)

RECURSIVE ChunkWalk(_, _, _, _)
ChunkWalk(acc, ops, ol, nl) ==
    IF ops = <<>> THEN acc
    ELSE ChunkWalk(ChunkStep(acc, ops[1], ol, nl), Tail(ops), ol, nl)

\* get_str_diff_chunks as one call.
get_str_diff_chunks(old, new) ==
    LET ol == _normalize_lines(old)
        nl == _normalize_lines(new)
    IN  PostFilter(Flush(ChunkWalk(ChunkerStart, get_opcodes(ol, nl), ol, nl)).diffs)

\* ---------------------------------------------------------- the extractor

\* The backquote character (U+0060), written by name.
Backquote == "BQ"

Fence == <<Backquote, Backquote, Backquote>>

\* The accumulators of extract_markdown_code_blocks before the first line.
ExtractorStart == [in_code_block |-> FALSE, current_block |-> <<>>, code_blocks |-> <<>>]

\* IsFenceLine looking for the fence anywhere in the line.
IsFenceLine_Anywhere(line) ==
    \E k \in 1..(Len(line) - 2) : SubSeq(line, k, k + 2) = Fence

\* IsFenceLine asking for the bare fence, without a language tag.
IsFenceLine_Bare(line) == strip(line) = Fence

IsFenceLine(line) == startswith(strip(line), Fence)

\* ExtractStep, keeping the lines of a block without their indentation.
ExtractStep_Stripped(acc, line) ==
    IF IsFenceLine(line) /\ acc.in_code_block = FALSE
    THEN [acc EXCEPT !.in_code_block = TRUE, !.current_block = <<>>]
    ELSE IF IsFenceLine(line) /\ acc.in_code_block = TRUE
    THEN [acc EXCEPT !.in_code_block = FALSE,
                     !.code_blocks = Append(@, Flatten(acc.current_block, <<NL>>))]
    ELSE IF acc.in_code_block = TRUE
    THEN [acc EXCEPT !.current_block = Append(@, strip(line))]
    ELSE acc

\* ExtractStep, taking the closing fence line into the block it closes.
ExtractStep_KeepFence(acc, line) ==
    IF IsFenceLine(line) /\ acc.in_code_block = FALSE
    THEN [acc EXCEPT !.in_code_block = TRUE, !.current_block = <<>>]
    ELSE IF IsFenceLine(line) /\ acc.in_code_block = TRUE
    THEN [acc EXCEPT !.in_code_block = FALSE,
                     !.code_blocks = Append(@, Flatten(Append(acc.current_block, line), <<NL>>))]
    ELSE IF acc.in_code_block = TRUE
    THEN [acc EXCEPT !.current_block = Append(@, line)]
    ELSE acc

\* One iteration of the loop over the lines.
ExtractStep(acc, line) ==
    IF IsFenceLine(line) /\ acc.in_code_block = FALSE
    THEN [acc EXCEPT !.in_code_block = TRUE, !.current_block = <<>>]
    ELSE IF IsFenceLine(line) /\ acc.in_code_block = TRUE
    THEN [acc EXCEPT !.in_code_block = FALSE,
                     !.code_blocks = Append(@, Flatten(acc.current_block, <<NL>>))]
    ELSE IF acc.in_code_block = TRUE
    THEN [acc EXCEPT !.current_block = Append(@, line)]
    ELSE acc

\* ExtractReturn, emitting a block that is still open at the end of the text.
ExtractReturn_FlushOpen(acc) ==
    IF acc.in_code_block
    THEN Append(acc.code_blocks, Flatten(acc.current_block, <<NL>>))
    ELSE acc.code_blocks

\* The returned list.
ExtractReturn(acc) == acc.code_blocks

RECURSIVE ExtractWalk(_, _)
ExtractWalk(acc, lines) ==
    IF lines = <<>> THEN acc ELSE ExtractWalk(ExtractStep(acc, lines[1]), Tail(lines))

\* extract_markdown_code_blocks as one call.
extract_markdown_code_blocks(markdown) ==
    ExtractReturn(ExtractWalk(ExtractorStart, splitlines(markdown)))

\* ------------------------------------------------------------- the scorer
\* assess_bug_report_contents_score is specified (sections 4.4 and 7) and
\* tested, but its code is not among the sources: it is modelled from the
\* specification. Numbers are fractions <<numerator, denominator>> in lowest
\* terms.

RECURSIVE GCD(_, _)
GCD(x, y) == IF y = 0 THEN x ELSE GCD(y, x % y)

Frac(n, d) == LET g == GCD(n, d) IN <<n \div g, d \div g>>

FracLeq(p, q) == p[1] * q[2] <= q[1] * p[2]

FracAdd(p, q) == Frac(p[1] * q[2] + q[1] * p[2], p[2] * q[2])

RECURSIVE SumSizes(_)
SumSizes(blocks) == IF blocks = <<>> THEN 0 ELSE blocks[1][3] + SumSizes(Tail(blocks))

\* The similarity ratio of two texts, insensitive to whitespace runs:
\* 2 * matches / total length of the normalized texts, 1 when both are empty.
Similarity(a, b) ==
    LET x == _normalize_whitespace(a)
        y == _normalize_whitespace(b)
        total == Len(x) + Len(y)
    IN  IF total = 0 THEN <<1, 1>>
        ELSE Frac(2 * SumSizes(get_matching_blocks(x, y)), total)

\* The text of a chunk that is compared: its new side, and for a pure
\* deletion its old side.
ChunkText(d) == IF d.new_version # <<>> THEN d.new_version ELSE d.old_version

\* BestSimilarity looking at the first code block only.
BestSimilarity_First(d, blocks) == Similarity(ChunkText(d), blocks[1])

\* The best similarity of a chunk over all code blocks.
BestSimilarity(d, blocks) ==
    LET ratios == {Similarity(ChunkText(d), blocks[i]) : i \in 1..Len(blocks)}
    IN  CHOOSE r \in ratios : \A q \in ratios : FracLeq(q, r)

\* Found with the comparison turned round.
Found_Reversed(best, threshold) == best[1] * 100 <= threshold * best[2]

Found(best, threshold) == best[1] * 100 >= threshold * best[2]

\* Full credit at or above the threshold, else the best ratio itself.
Credit(best, threshold) == IF Found(best, threshold) THEN <<1, 1>> ELSE best

RECURSIVE SumFracs(_)
SumFracs(fs) == IF fs = <<>> THEN <<0, 1>> ELSE FracAdd(fs[1], SumFracs(Tail(fs)))

\* MeanCredit without the division: the sum of the credits.
MeanCredit_Sum(cs) == SumFracs(cs)

\* The mean of the credits of the chunks.
MeanCredit(cs) ==
    LET total == SumFracs(cs) IN Frac(total[1], total[2] * Len(cs))

\* Steps 3 to 5 as one function of the chunks, the blocks and the threshold.
CreditsOf(chunks, blocks, threshold) ==
    [i \in 1..Len(chunks) |-> Credit(BestSimilarity(chunks[i], blocks), threshold)]

ScoreOf(chunks, blocks, threshold) == MeanCredit(CreditsOf(chunks, blocks, threshold))

\* ------------------------------------------------------------------ inputs

RECURSIVE SeqsUpTo(_, _)
\* The sequences over A of length at most n.
SeqsUpTo(A, n) ==
    IF n = 0 THEN {<<>>}
    ELSE LET shorter == SeqsUpTo(A, n - 1) IN
         shorter \cup {Append(s, x) : s \in {t \in shorter : Len(t) = n - 1}, x \in A}

\* Raw lines of the all-pairs specification: a blank line, a line, the same
\* line with other indentation and inner spacing, another line.
DiffAlphabet ==
    { <<>>,
      <<"a", " ", "b">>,
      <<" ", "a", "\t", " ", "b", " ">>,
      <<"c">> }

TextOf(lines) == Flatten(lines, <<NL>>)

DiffTexts == {TextOf(ls) : ls \in SeqsUpTo(DiffAlphabet, MaxLines)}

\* ------------------------------------------------------------------- state

VARIABLES
    pc,                 \* where the call is: "start", "walk", "done"
    old_text, new_text, \* the arguments
    script,             \* how new_text was made from old_text ("any": freely chosen)
    old_lines, new_lines,
    opcodes, op_idx,    \* matcher.get_opcodes() and the loop's position in it
    current_old_chunk, current_new_chunk, diffs,
    diff_result         \* the returned list

\* extract_markdown_code_blocks
VARIABLES
    ext_pc,             \* where the call is: "start", "scan", "done"
    markdown,           \* the argument
    md_src,             \* the lines markdown was joined from
    md_lines, line_idx, \* markdown.splitlines() and the loop's position in it
    in_code_block, current_block, code_blocks,
    ext_result          \* the returned list

\* assess_bug_report_contents_score
VARIABLES
    sc_pc,                 \* "start", "have_diffs", "scoring", "returned", "raised"
    base_code, buggy_code, \* the code arguments
    code_src, code_edit,   \* the lines of base_code, and the edit that made buggy_code
    bug_report,            \* the report argument
    report_src,            \* the lines bug_report was joined from
    similarity_threshold,  \* in hundredths
    gt_chunks, sc_blocks,  \* the ground-truth chunks and the report's code blocks
    chunk_idx, credits,    \* the loop over the chunks and the credit of each
    score,                 \* the returned score, <<numerator, denominator>>
    sc_error               \* the message of the raised error

\* apply_mapping_two_step
VARIABLES
    rn_pc,         \* where the call is: "start", "step1", "step2", "done"
    masked_text,   \* the text argument
    mapping,       \* the mapping argument: its <<old, new>> items in dict order
    rn_text,       \* the local text
    sorted_keys,   \* the keys by length, longest first, still to be handled
    uuid_map,      \* the <<uid, new name>> items recorded so far, in dict order
    uid_count,     \* how many placeholders have been drawn
    uid_idx,       \* the loop over uuid_map
    rn_result      \* the returned text

\* reorder_chunks
VARIABLES
    ro_pc,          \* where the call is: "start", "loop", "done"
    ro_chunks,      \* the argument chunks
    ro_level,       \* the argument level
    ro_new_chunks,  \* the local new_chunks
    ro_groups,      \* the <<name, indices>> groups still to be shuffled
    ro_mapping,     \* the local mapping: its <<name, ids>> items in dict order
    ro_result       \* the returned pair <<new_chunks, mapping>>

\* split_module_into_chunks: the module body, the scan position, the chunks found so far and the chunk counter
VARIABLES
    sp_pc,
    body,
    idx,
    sp_chunks,
    chunk_counter,
    sp_result

\* process_one_repository: the repository, its remote branches, the branch of the current pass with the paths git reports as changed, the files written, the metadata records and the counters
VARIABLES
    ex_pc,
    repo_name,
    branches,
    branch_i,
    branch_name,
    changed_files,
    written,
    output_metadata_list,
    skipped_count,
    processed_count

chunker_vars == <<pc, old_text, new_text, script, old_lines, new_lines, opcodes,
                  op_idx, current_old_chunk, current_new_chunk, diffs, diff_result>>

extractor_vars == <<ext_pc, markdown, md_src, md_lines, line_idx, in_code_block,
                    current_block, code_blocks, ext_result>>

scorer_vars == <<sc_pc, base_code, buggy_code, code_src, code_edit, bug_report,
                 report_src, similarity_threshold, gt_chunks, sc_blocks, chunk_idx,
                 credits, score, sc_error>>

renamer_vars == <<rn_pc, masked_text, mapping, rn_text, sorted_keys, uuid_map, uid_count,
                  uid_idx, rn_result>>

reorderer_vars == <<ro_pc, ro_chunks, ro_level, ro_new_chunks, ro_groups, ro_mapping, ro_result>>

splitter_vars == <<sp_pc, body, idx, sp_chunks, chunk_counter, sp_result>>

exporter_vars == <<ex_pc, repo_name, branches, branch_i, branch_name, changed_files, written, output_metadata_list, skipped_count, processed_count>>

vars == <<chunker_vars, extractor_vars, scorer_vars, renamer_vars, reorderer_vars, splitter_vars, exporter_vars>>

not_chunker == <<extractor_vars, scorer_vars, renamer_vars, reorderer_vars, splitter_vars, exporter_vars>>

not_extractor == <<chunker_vars, scorer_vars, renamer_vars, reorderer_vars, splitter_vars, exporter_vars>>

not_scorer == <<chunker_vars, extractor_vars, renamer_vars, reorderer_vars, splitter_vars, exporter_vars>>

not_renamer == <<chunker_vars, extractor_vars, scorer_vars, reorderer_vars, splitter_vars, exporter_vars>>

not_reorderer == <<chunker_vars, extractor_vars, scorer_vars, renamer_vars, splitter_vars, exporter_vars>>

not_splitter == <<chunker_vars, extractor_vars, scorer_vars, renamer_vars, reorderer_vars, exporter_vars>>

not_exporter == <<chunker_vars, extractor_vars, scorer_vars, renamer_vars, reorderer_vars, splitter_vars>>

inputs == <<old_text, new_text, script>>

\* No call of the chunker is in progress.
ChunkerIdle ==
    /\ pc = "idle"
    /\ old_text = <<>>
    /\ new_text = <<>>
    /\ script = <<>>
    /\ old_lines = <<>>
    /\ new_lines = <<>>
    /\ opcodes = <<>>
    /\ op_idx = 1
    /\ current_old_chunk = <<>>
    /\ current_new_chunk = <<>>
    /\ diffs = <<>>
    /\ diff_result = <<>>

\* No call of the scorer is in progress.
ScorerIdle ==
    /\ sc_pc = "idle"
    /\ base_code = <<>>
    /\ buggy_code = <<>>
    /\ code_src = <<>>
    /\ code_edit = <<>>
    /\ bug_report = <<>>
    /\ report_src = <<>>
    /\ similarity_threshold = 0
    /\ gt_chunks = <<>>
    /\ sc_blocks = <<>>
    /\ chunk_idx = 1
    /\ credits = <<>>
    /\ score = <<>>
    /\ sc_error = ""

\* No call of apply_mapping_two_step is in progress.
RenamerIdle ==
    /\ rn_pc = "idle"
    /\ masked_text = <<>>
    /\ mapping = <<>>
    /\ rn_text = <<>>
    /\ sorted_keys = <<>>
    /\ uuid_map = <<>>
    /\ uid_count = 0
    /\ uid_idx = 1
    /\ rn_result = <<>>

\* No call of the extractor is in progress.
ExtractorIdle ==
    /\ ext_pc = "idle"
    /\ markdown = <<>>
    /\ md_src = <<>>
    /\ md_lines = <<>>
    /\ line_idx = 1
    /\ in_code_block = FALSE
    /\ current_block = <<>>
    /\ code_blocks = <<>>
    /\ ext_result = <<>>

\* No call of reorder_chunks is in progress.
ReordererIdle ==
    /\ ro_pc = "idle"
    /\ ro_chunks = <<>>
    /\ ro_level = ""
    /\ ro_new_chunks = <<>>
    /\ ro_groups = <<>>
    /\ ro_mapping = <<>>
    /\ ro_result = <<>>

\* No call of the split_module_into_chunks is in progress.
SplitterIdle ==
    /\ sp_pc = "idle"
    /\ body = <<>>
    /\ idx = 0
    /\ sp_chunks = <<>>
    /\ chunk_counter = 0
    /\ sp_result = <<>>

\* No call of the process_one_repository is in progress.
ExporterIdle ==
    /\ ex_pc = "idle"
    /\ repo_name = ""
    /\ branches = <<>>
    /\ branch_i = 0
    /\ branch_name = ""
    /\ changed_files = {}
    /\ written = {}
    /\ output_metadata_list = <<>>
    /\ skipped_count = 0
    /\ processed_count = 0

ChunkerLocalsInit ==
    /\ pc = "start"
    /\ old_lines = <<>>
    /\ new_lines = <<>>
    /\ opcodes = <<>>
    /\ op_idx = 1
    /\ current_old_chunk = <<>>
    /\ current_new_chunk = <<>>
    /\ diffs = <<>>
    /\ diff_result = <<>>

InitDiff ==
    /\ old_text \in DiffTexts
    /\ new_text \in DiffTexts
    /\ script = <<"any">>
    /\ ChunkerLocalsInit
    /\ ExtractorIdle
    /\ ScorerIdle
    /\ RenamerIdle
    /\ ReordererIdle
    /\ SplitterIdle
    /\ ExporterIdle

Acc == [old |-> current_old_chunk, new |-> current_new_chunk, diffs |-> diffs]

SetAcc(acc) ==
    /\ current_old_chunk' = acc.old
    /\ current_new_chunk' = acc.new
    /\ diffs' = acc.diffs

\* DiffBegin with accumulators that live outside the call and are not
\* emptied when a call begins.
DiffBegin_KeptAccumulators ==
    /\ pc = "start"
    /\ old_lines' = _normalize_lines(old_text)
    /\ new_lines' = _normalize_lines(new_text)
    /\ opcodes' = get_opcodes(old_lines', new_lines')
    /\ op_idx' = 1
    /\ pc' = "walk"
    /\ UNCHANGED <<current_old_chunk, current_new_chunk, diffs>>
    /\ UNCHANGED <<inputs, diff_result, not_chunker>>

\* Lines 125-132: normalize, align, empty accumulators.
DiffBegin ==
    /\ pc = "start"
    /\ old_lines' = _normalize_lines(old_text)
    /\ new_lines' = _normalize_lines(new_text)
    /\ opcodes' = get_opcodes(old_lines', new_lines')
    /\ op_idx' = 1
    /\ SetAcc(ChunkerStart)
    /\ pc' = "walk"
    /\ UNCHANGED <<inputs, diff_result, not_chunker>>

Walking == pc = "walk" /\ op_idx <= Len(opcodes)

WalkOn ==
    /\ SetAcc(ChunkStep(Acc, opcodes[op_idx], old_lines, new_lines))
    /\ op_idx' = op_idx + 1
    /\ UNCHANGED <<pc, inputs, old_lines, new_lines, opcodes, diff_result, not_chunker>>

\* Lines 135-145: an equal segment of 3 or more lines.
DiffEqualSplit == Walking /\ IsSplit(opcodes[op_idx]) /\ WalkOn

\* Lines 147-150: a shorter equal segment.
DiffEqualContext ==
    /\ Walking
    /\ opcodes[op_idx][1] = "equal"
    /\ ~IsSplit(opcodes[op_idx])
    /\ WalkOn

\* Lines 151-153: replace, delete, insert.
DiffChanged == Walking /\ opcodes[op_idx][1] # "equal" /\ WalkOn

\* Lines 155-165: the final flush and the filter.
DiffReturn ==
    /\ pc = "walk"
    /\ op_idx > Len(opcodes)
    /\ diffs' = Flush(Acc).diffs
    /\ current_old_chunk' = current_old_chunk
    /\ current_new_chunk' = current_new_chunk
    /\ diff_result' = PostFilter(diffs')
    /\ pc' = "done"
    /\ UNCHANGED <<inputs, old_lines, new_lines, opcodes, op_idx, not_chunker>>

\* ---- inputs for the normalization of one line

\* Every line of up to MaxLineLen characters: blanks, tabs and a letter.
NormInputLines == SeqsUpTo({" ", "\t", "a"}, MaxLineLen)

\* The lines the input line is compared with.
NormOtherLines == { <<>>, <<"a">>, <<"a", " ", "a">>, <<"a", "a">>, <<"a", "\t", " ", "a">> }

\* The line as the first line of a text of two lines.
AsFirstLine(line) == line \o <<NL, "x">>

InitNorm ==
    /\ \E s \in NormInputLines : old_text = AsFirstLine(s)
    /\ \E t \in NormOtherLines : new_text = AsFirstLine(t)
    /\ script = <<"any">>
    /\ ChunkerLocalsInit
    /\ ExtractorIdle
    /\ ScorerIdle
    /\ RenamerIdle
    /\ ReordererIdle
    /\ SplitterIdle
    /\ ExporterIdle

\* Texts of two lines have no equal segment of context_threshold lines.
NextNorm ==
    \/ DiffBegin
    \/ DiffEqualContext
    \/ DiffChanged
    \/ DiffReturn

SpecNorm == InitNorm /\ [][NextNorm]_vars

\* ---- inputs made by an edit script

\* Raw lines of the edit-script specification; the blank line is a line of
\* one space, so that every line of a list is a line of the joined text.
EditAlphabet == { <<"a">>, <<"m">>, <<" ">> }

\* The edit scripts on the lines ls: one line replaced, removed or inserted,
\* or two lines replaced. Positions are 1-based positions in ls; an insert at
\* p puts the line before ls[p].
Scripts(ls) ==
    LET n == Len(ls) IN
         {<<(<<"replace", p, y>>)>> : p \in 1..n, y \in EditAlphabet}
    \cup {<<(<<"delete", p, <<>> >>)>> : p \in 1..n}
    \cup {<<(<<"insert", p, y>>)>> : p \in 1..(n + 1), y \in EditAlphabet}
    \cup {<<(<<"replace", pq[1], yy[1]>>), (<<"replace", pq[2], yy[2]>>)>> :
            pq \in {r \in (1..n) \X (1..n) : r[1] < r[2]},
            yy \in EditAlphabet \X EditAlphabet}

ApplyEdit(ls, e) ==
    CASE e[1] = "replace" -> [ls EXCEPT ![e[2]] = e[3]]
      [] e[1] = "delete" -> SubSeq(ls, 1, e[2] - 1) \o SubSeq(ls, e[2] + 1, Len(ls))
      [] e[1] = "insert" -> SubSeq(ls, 1, e[2] - 1) \o <<e[3]>> \o SubSeq(ls, e[2], Len(ls))

\* Two replaces touch different lines, so they apply in either order.
ApplyScript(ls, sc) ==
    IF Len(sc) = 1 THEN ApplyEdit(ls, sc[1]) ELSE ApplyEdit(ApplyEdit(ls, sc[1]), sc[2])

\* A replace that leaves the normalized line as it was is no edit.
RealEdit(ls, e) == e[1] = "replace" => NormLine(e[3]) # NormLine(ls[e[2]])

InitEdit ==
    /\ \E ls \in SeqsUpTo(EditAlphabet, MaxEditLines) :
         \E sc \in Scripts(ls) :
            /\ \A k \in 1..Len(sc) : RealEdit(ls, sc[k])
            /\ old_text = TextOf(ls)
            /\ new_text = TextOf(ApplyScript(ls, sc))
            /\ script = sc
    /\ ChunkerLocalsInit
    /\ ExtractorIdle
    /\ ScorerIdle
    /\ RenamerIdle
    /\ ReordererIdle
    /\ SplitterIdle
    /\ ExporterIdle

NextDiff ==
    \/ DiffBegin
    \/ DiffEqualSplit
    \/ DiffEqualContext
    \/ DiffChanged
    \/ DiffReturn

SpecDiff == InitDiff /\ [][NextDiff]_vars

SpecEdit == InitEdit /\ [][NextDiff]_vars

Done == pc = "done"

\* ---- the extractor, line by line

\* Raw lines of a markdown text: a fence, an indented fence with a language
\* tag, a line, an indented line, a blank line, a line with a fence after
\* other text, a line that starts with two backquotes only.
MdAlphabet ==
    { Fence,
      <<" ">> \o Fence \o <<"v">>,
      <<"a">>,
      <<" ", "a">>,
      <<>>,
      <<"a">> \o Fence,
      <<Backquote, Backquote, "a">> }

\* The lines of MdAlphabet that are fences.
MdFences == { Fence, <<" ">> \o Fence \o <<"v">> }

InitExtract ==
    /\ md_src \in SeqsUpTo(MdAlphabet, MaxMdLines)
    /\ markdown = TextOf(md_src)
    /\ ext_pc = "start"
    /\ md_lines = <<>>
    /\ line_idx = 1
    /\ in_code_block = FALSE
    /\ current_block = <<>>
    /\ code_blocks = <<>>
    /\ ext_result = <<>>
    /\ ChunkerIdle
    /\ ScorerIdle
    /\ RenamerIdle
    /\ ReordererIdle
    /\ SplitterIdle
    /\ ExporterIdle

ExtAcc ==
    [in_code_block |-> in_code_block, current_block |-> current_block,
     code_blocks |-> code_blocks]

SetExtAcc(acc) ==
    /\ in_code_block' = acc.in_code_block
    /\ current_block' = acc.current_block
    /\ code_blocks' = acc.code_blocks

\* Lines 180-184: empty accumulators, the text split into lines.
ExtBegin ==
    /\ ext_pc = "start"
    /\ md_lines' = splitlines(markdown)
    /\ line_idx' = 1
    /\ SetExtAcc(ExtractorStart)
    /\ ext_pc' = "scan"
    /\ UNCHANGED <<markdown, md_src, ext_result, not_extractor>>

Scanning == ext_pc = "scan" /\ line_idx <= Len(md_lines)

ScanOn ==
    /\ SetExtAcc(ExtractStep(ExtAcc, md_lines[line_idx]))
    /\ line_idx' = line_idx + 1
    /\ UNCHANGED <<ext_pc, markdown, md_src, md_lines, ext_result, not_extractor>>

\* Lines 185-187: a fence outside a block opens one.
ExtOpenFence ==
    Scanning /\ IsFenceLine(md_lines[line_idx]) /\ in_code_block = FALSE /\ ScanOn

\* Lines 188-190: a fence inside a block closes it.
ExtCloseFence ==
    Scanning /\ IsFenceLine(md_lines[line_idx]) /\ in_code_block = TRUE /\ ScanOn

\* Lines 191-192: a line inside a block.
ExtContent ==
    Scanning /\ ~IsFenceLine(md_lines[line_idx]) /\ in_code_block = TRUE /\ ScanOn

\* A line outside every block: no branch is taken.
ExtProse ==
    Scanning /\ ~IsFenceLine(md_lines[line_idx]) /\ in_code_block = FALSE /\ ScanOn

\* Line 194.
ExtReturn ==
    /\ ext_pc = "scan"
    /\ line_idx > Len(md_lines)
    /\ ext_result' = ExtractReturn(ExtAcc)
    /\ ext_pc' = "done"
    /\ UNCHANGED <<markdown, md_src, md_lines, line_idx, in_code_block,
                   current_block, code_blocks, not_extractor>>

NextExtract ==
    \/ ExtBegin
    \/ ExtOpenFence
    \/ ExtCloseFence
    \/ ExtContent
    \/ ExtProse
    \/ ExtReturn

SpecExtract == InitExtract /\ [][NextExtract]_vars

ExtDone == ext_pc = "done"

\* ------------------------------------------------------- chunker: claims

\* C1. Identity: when old_text and new_text are the same text (the empty text
\* and texts of fewer than 3 lines included), get_str_diff_chunks returns the
\* empty list.
C1_Identity == (Done /\ old_text = new_text) => diff_result = <<>>

\* A text of one or two lines was compared with itself: its lines were kept
\* as context, flushed as a chunk and removed by the filter.
C1_Witness ==
    /\ Done
    /\ old_text = new_text
    /\ Len(old_lines) \in 1..2
    /\ Len(diffs) = 1
    /\ diff_result = <<>>

\* The non-blank normalized lines of a text, in order.
NonBlankLines(text) == SelectSeq(_normalize_lines(text), LAMBDA l : l # <<>>)

\* The two texts differ at most in runs of whitespace: spacing inside lines,
\* indentation, the number of blank lines.
WhitespaceOnly(old, new) == NonBlankLines(old) = NonBlankLines(new)

\* C2. Whitespace invariance: when old_text and new_text differ only in runs
\* of whitespace (spacing inside lines, indentation, or the number of blank
\* lines anywhere in the text), get_str_diff_chunks returns the empty list.
C2_WhitespaceInvariance ==
    (Done /\ WhitespaceOnly(old_text, new_text)) => diff_result = <<>>

\* ---- two single-line edits (C3)

TwoEdits ==
    /\ Len(script) = 2
    /\ script[1][1] = "replace"
    /\ script[2][1] = "replace"

\* The number of unchanged lines between the two edited lines.
EditGap == script[2][2] - script[1][2] - 1

\* The normalized line is one of the lines of a chunk side (a blank line has
\* no content to look for).
HasLine(version, line) ==
    \/ line = <<>>
    \/ \E i \in 1..Len(splitlines(version)) : splitlines(version)[i] = line

\* The chunk d shows edit e: the old line on its old side, the new line on its
\* new side.
ShowsEdit(d, e) ==
    /\ HasLine(d.old_version, NormLine(splitlines(old_text)[e[2]]))
    /\ HasLine(d.new_version, NormLine(e[3]))

ThresholdOutcome ==
    IF EditGap >= 3
    THEN /\ Len(diff_result) = 2
         /\ ShowsEdit(diff_result[1], script[1])
         /\ ShowsEdit(diff_result[2], script[2])
    ELSE /\ Len(diff_result) = 1
         /\ ShowsEdit(diff_result[1], script[1])
         /\ ShowsEdit(diff_result[1], script[2])

\* Neither edit blanks a line or fills a blank line.
EditsOfContent ==
    \A k \in 1..2 :
        /\ NormLine(script[k][3]) # <<>>
        /\ NormLine(splitlines(old_text)[script[k][2]]) # <<>>

\* C3 as stated. Chunk-merge threshold: for two single-line edits (each of
\* them turning a non-blank line into another non-blank line), 3 or more
\* unchanged lines between them give 2 chunks, one per edit in document order,
\* and 2 or fewer give exactly 1 chunk containing both edits.
C3_AsStated == (Done /\ TwoEdits /\ EditsOfContent) => ThresholdOutcome

\* The matcher aligned every unchanged line with itself: every equal segment
\* sits at the same place in both texts and no segment inserts or deletes.
AlignedInPlace ==
    \A k \in 1..Len(opcodes) :
        /\ opcodes[k][1] \in {"equal", "replace"}
        /\ opcodes[k][2] = opcodes[k][4]
        /\ opcodes[k][3] = opcodes[k][5]

\* C3, amended. Chunk-merge threshold for two single-line edits that the
\* matcher aligns in place (each unchanged line matched with itself): 3 or
\* more unchanged lines between the edits give 2 chunks, one per edit in
\* document order; 2 or fewer give exactly 1 chunk containing both edits.
C3_ChunkMergeThreshold ==
    (Done /\ TwoEdits /\ AlignedInPlace) => ThresholdOutcome

\* Both cases happened: two edits 3 lines apart were split into two chunks.
C3_Witness ==
    /\ Done
    /\ TwoEdits
    /\ AlignedInPlace
    /\ EditGap = 3
    /\ Len(diff_result) = 2

\* ---- one line removed (C4)

OneDeletion == Len(script) = 1 /\ script[1][1] = "delete"

RemovedLine == NormLine(splitlines(old_text)[script[1][2]])

DeletionOutcome ==
    /\ Len(diff_result) = 1
    /\ diff_result[1].new_version = <<>>
    /\ HasLine(diff_result[1].old_version, RemovedLine)

\* C4 as stated. Pure deletion: whenever new_text is old_text with one line
\* (a line with content) removed and nothing put in its place,
\* get_str_diff_chunks returns exactly one chunk, with an empty new_version
\* and an old_version that contains the removed line's normalized content.
C4_AsStated == (Done /\ OneDeletion /\ RemovedLine # <<>>) => DeletionOutcome

\* The alignment is one delete segment of one line, and every equal segment
\* around it has 3 or more lines (or is absent).
LoneDeleteFarFromContext ==
    /\ \E k \in 1..Len(opcodes) :
          /\ opcodes[k][1] = "delete"
          /\ opcodes[k][3] - opcodes[k][2] = 1
          /\ \A h \in 1..Len(opcodes) : h # k => IsSplit(opcodes[h])

\* C4, amended. Pure deletion: whenever new_text is old_text with one
\* non-blank line removed, the matcher aligns the two texts as one deleted
\* line, and the unchanged lines before it and those after it number 3 or more
\* (or none), get_str_diff_chunks returns exactly one chunk, with an empty
\* new_version and an old_version that contains the removed line's content.
C4_PureDeletion ==
    (Done /\ OneDeletion /\ RemovedLine # <<>> /\ LoneDeleteFarFromContext)
        => DeletionOutcome

\* A non-blank line in front of three unchanged lines was removed.
C4_Witness ==
    /\ Done
    /\ OneDeletion
    /\ RemovedLine # <<>>
    /\ LoneDeleteFarFromContext
    /\ Len(opcodes) = 2
    /\ diff_result # <<>>
    /\ diff_result[1].old_version = RemovedLine

\* ---- interleaved and repeated calls

\* The texts and the markdown texts of the calls that are interleaved.
ConcTexts == { <<>>, <<"c">>, <<"m">>, <<"c", NL, "c", NL, "c">> }

ConcMarkdowns ==
    { <<(<<"a">>)>>,
      <<Fence, (<<"a">>), Fence>>,
      <<Fence, (<<"a">>)>>,
      <<Fence, Fence, (<<"a">>), Fence>> }

InitCalls ==
    /\ old_text \in ConcTexts
    /\ new_text \in ConcTexts
    /\ script = <<"any">>
    /\ ChunkerLocalsInit
    /\ md_src \in ConcMarkdowns
    /\ markdown = TextOf(md_src)
    /\ ext_pc = "start"
    /\ md_lines = <<>>
    /\ line_idx = 1
    /\ in_code_block = FALSE
    /\ current_block = <<>>
    /\ code_blocks = <<>>
    /\ ext_result = <<>>
    /\ ScorerIdle
    /\ RenamerIdle
    /\ ReordererIdle
    /\ SplitterIdle
    /\ ExporterIdle

\* Line 111: the next call of get_str_diff_chunks, on new arguments. What the
\* call before left in its variables is still there.
DiffCall ==
    /\ pc = "done"
    /\ old_text' \in ConcTexts
    /\ new_text' \in ConcTexts
    /\ pc' = "start"
    /\ UNCHANGED <<script, old_lines, new_lines, opcodes, op_idx, current_old_chunk,
                   current_new_chunk, diffs, diff_result, not_chunker>>

\* Line 168: the next call of extract_markdown_code_blocks.
ExtCall ==
    /\ ext_pc = "done"
    /\ md_src' \in ConcMarkdowns
    /\ markdown' = TextOf(md_src')
    /\ ext_pc' = "start"
    /\ UNCHANGED <<md_lines, line_idx, in_code_block, current_block, code_blocks,
                   ext_result, not_extractor>>

\* The steps of a call of the one function and of a call of the other, in
\* any order, each function called again and again.
NextCalls ==
    \/ NextDiff
    \/ NextExtract
    \/ DiffCall
    \/ ExtCall

SpecCalls == InitCalls /\ [][NextCalls]_vars

\* ---- the scorer

\* Raw lines of the base code, and the lines an edit puts into the buggy
\* code: one with a trailing blank, one indented.
ScoreOldLines == { <<"a", "b">>, <<"m">> }

ChangedLine == <<" ", "a", "c">>

ScoreNewLines == { <<"a", "b", " ">>, ChangedLine }

\* No edit, or one line replaced, removed or inserted.
ScoreEdits(ls) ==
    LET n == Len(ls) IN
         {<<>>}
    \cup {<<(<<"replace", p, y>>)>> : p \in 1..n, y \in ScoreNewLines}
    \cup {<<(<<"delete", p, <<>> >>)>> : p \in 1..n}
    \cup {<<(<<"insert", p, ChangedLine>>)>> : p \in 1..(n + 1)}

\* What a code block of a report may hold: nothing, or the indented line.
BlockContents == { <<>>, <<ChangedLine>> }

RECURSIVE FencedBlocks(_)
\* The lines of the blocks bs, each between a tagged opening fence and a
\* closing fence.
FencedBlocks(bs) ==
    IF bs = <<>> THEN <<>>
    ELSE <<Fence \o <<"v">> >> \o bs[1] \o <<Fence>> \o FencedBlocks(Tail(bs))

\* A report: a line of prose and closed blocks, or a line of prose and one
\* block left open.
ReportSources ==
         { <<(<<"p">>)>> \o FencedBlocks(bs) : bs \in SeqsUpTo(BlockContents, MaxBlocks) }
    \cup { <<(<<"p">>), Fence, ChangedLine>> }

Thresholds == {60, 80}

default_similarity_threshold == 80

\* A call of the scorer on a base code whose lines are drawn from lines.
InitScoreOver(lines) ==
    /\ \E ls \in SeqsUpTo(lines, MaxScoreLines) :
         \E ed \in ScoreEdits(ls) :
            /\ code_src = ls
            /\ code_edit = ed
            /\ base_code = TextOf(ls)
            /\ buggy_code = IF ed = <<>> THEN TextOf(ls) ELSE TextOf(ApplyScript(ls, ed))
    /\ report_src \in ReportSources
    /\ bug_report = TextOf(report_src)
    /\ similarity_threshold \in Thresholds
    /\ sc_pc = "start"
    /\ gt_chunks = <<>>
    /\ sc_blocks = <<>>
    /\ chunk_idx = 1
    /\ credits = <<>>
    /\ score = <<>>
    /\ sc_error = ""
    /\ ChunkerIdle
    /\ ExtractorIdle
    /\ RenamerIdle
    /\ ReordererIdle
    /\ SplitterIdle
    /\ ExporterIdle

InitScore == InitScoreOver(ScoreOldLines)

\* Calls on base codes that repeat one line, for the claims that compare the
\* call with calls on other reports.
InitScoreReports == InitScoreOver({ <<"a", "b">> })

sc_inputs == <<base_code, buggy_code, code_src, code_edit, bug_report, report_src,
               similarity_threshold>>

\* Step 1 and the first precondition: no chunk, "No diffs found".
ScoreNoDiffs ==
    /\ sc_pc = "start"
    /\ gt_chunks' = get_str_diff_chunks(base_code, buggy_code)
    /\ gt_chunks' = <<>>
    /\ sc_pc' = "raised"
    /\ sc_error' = "No diffs found"
    /\ UNCHANGED <<sc_inputs, sc_blocks, chunk_idx, credits, score, not_scorer>>

ScoreHaveDiffs ==
    /\ sc_pc = "start"
    /\ gt_chunks' = get_str_diff_chunks(base_code, buggy_code)
    /\ gt_chunks' # <<>>
    /\ sc_pc' = "have_diffs"
    /\ UNCHANGED <<sc_inputs, sc_blocks, chunk_idx, credits, score, sc_error, not_scorer>>

\* Step 2 and the second precondition: no block, "No code blocks found".
ScoreNoBlocks ==
    /\ sc_pc = "have_diffs"
    /\ sc_blocks' = extract_markdown_code_blocks(bug_report)
    /\ sc_blocks' = <<>>
    /\ sc_pc' = "raised"
    /\ sc_error' = "No code blocks found"
    /\ UNCHANGED <<sc_inputs, gt_chunks, chunk_idx, credits, score, not_scorer>>

ScoreHaveBlocks ==
    /\ sc_pc = "have_diffs"
    /\ sc_blocks' = extract_markdown_code_blocks(bug_report)
    /\ sc_blocks' # <<>>
    /\ sc_pc' = "scoring"
    /\ chunk_idx' = 1
    /\ credits' = <<>>
    /\ UNCHANGED <<sc_inputs, gt_chunks, score, sc_error, not_scorer>>

ScoringChunk == sc_pc = "scoring" /\ chunk_idx <= Len(gt_chunks)

ScoreOn ==
    /\ credits' = Append(credits,
            Credit(BestSimilarity(gt_chunks[chunk_idx], sc_blocks), similarity_threshold))
    /\ chunk_idx' = chunk_idx + 1
    /\ UNCHANGED <<sc_pc, sc_inputs, gt_chunks, sc_blocks, score, sc_error, not_scorer>>

\* Steps 3 and 4: a chunk whose best match reaches the threshold.
ScoreChunkFound ==
    /\ ScoringChunk
    /\ Found(BestSimilarity(gt_chunks[chunk_idx], sc_blocks), similarity_threshold)
    /\ ScoreOn

\* Steps 3 and 4: a chunk whose best match stays below the threshold.
ScoreChunkPartial ==
    /\ ScoringChunk
    /\ ~Found(BestSimilarity(gt_chunks[chunk_idx], sc_blocks), similarity_threshold)
    /\ ScoreOn

\* Step 5: the mean of the credits.
ScoreReturn ==
    /\ sc_pc = "scoring"
    /\ chunk_idx > Len(gt_chunks)
    /\ score' = MeanCredit(credits)
    /\ sc_pc' = "returned"
    /\ UNCHANGED <<sc_inputs, gt_chunks, sc_blocks, chunk_idx, credits, sc_error, not_scorer>>

NextScore ==
    \/ ScoreNoDiffs
    \/ ScoreHaveDiffs
    \/ ScoreNoBlocks
    \/ ScoreHaveBlocks
    \/ ScoreChunkFound
    \/ ScoreChunkPartial
    \/ ScoreReturn

SpecScore == InitScore /\ [][NextScore]_vars

SpecScoreReports == InitScoreReports /\ [][NextScore]_vars

\* The call is over: it returned a score or raised.
ScoreOver == sc_pc \in {"returned", "raised"}

\* ----------------------------------------------------- extractor: claims

\* The positions in md_src of its fence lines, in order.
FencePositions == SelectSeq([i \in 1..Len(md_src) |-> i], LAMBDA i : md_src[i] \in MdFences)

\* The blocks md_src was built from: the k-th is the lines strictly between
\* its fence lines 2k-1 and 2k, joined by newlines.
BuiltBlocks ==
    [k \in 1..(Len(FencePositions) \div 2) |->
        Flatten(SubSeq(md_src, FencePositions[2 * k - 1] + 1, FencePositions[2 * k] - 1),
                <<NL>>)]

EveryFenceClosed == Len(FencePositions) % 2 = 0

\* C5. Code-block extraction round trip: for a text joined from N fenced
\* blocks (opening fence with optional language tag, content lines, closing
\* fence) with prose (lines that are no fences) between them,
\* extract_markdown_code_blocks returns exactly the N blocks, in document
\* order and without deduplication, each the verbatim lines between its
\* fences joined by newlines (blank lines and indentation preserved).
C5_RoundTrip == (ExtDone /\ EveryFenceClosed) => ext_result = BuiltBlocks

\* Two blocks were extracted, one of them with an indented line.
C5_Witness ==
    /\ ExtDone
    /\ EveryFenceClosed
    /\ Len(ext_result) = 2
    /\ \E k \in 1..2 : ext_result[k] = <<" ", "a">>

\* C6. Unterminated fence: when the text ends inside a block, that trailing
\* block is not emitted, every block closed before it is returned unchanged,
\* and the call does not raise: at the end of the text it returns.
C6_UnterminatedFence ==
    /\ (ExtDone /\ ~EveryFenceClosed) => ext_result = BuiltBlocks
    /\ (ext_pc = "scan" /\ line_idx > Len(md_lines) /\ in_code_block)
           => ENABLED ExtReturn

\* A block was closed, a second one with a content line was left open, and
\* only the first was returned.
C6_Witness ==
    /\ ExtDone
    /\ ~EveryFenceClosed
    /\ in_code_block
    /\ current_block # <<>>
    /\ Len(ext_result) = 1


\* -------------------------------------------------------- scorer: claims

\* The call raised the precondition error msg and returned no score.
RaisedWith(msg) == sc_pc = "raised" /\ sc_error = msg /\ score = <<>>

\* The report holds at least one closed code block.
ReportHasBlock == Cardinality({i \in 1..Len(report_src) : IsFenceLine(report_src[i])}) >= 2

\* C7: whenever the diff of base and buggy has no chunk, and in particular
\* whenever base and buggy are the same text, the scorer fails with
\* "No diffs found" and returns no score, whatever the report holds.
C7_NoDiffs ==
    /\ (ScoreOver /\ gt_chunks = <<>>) => RaisedWith("No diffs found")
    /\ (ScoreOver /\ base_code = buggy_code) => RaisedWith("No diffs found")

\* Identical codes with a report that has a code block, and codes that
\* differ in whitespace only, have both been refused.
C7_Witness ==
    /\ RaisedWith("No diffs found")
    /\ ReportHasBlock
    /\ code_edit # <<>>
    /\ base_code # buggy_code

\* C8 as stated: whenever the report yields no code block, the scorer fails
\* with "No code blocks found" and returns no score (here for a base code
\* that is not empty).
C8_AsStated ==
    (ScoreOver /\ base_code # <<>> /\ extract_markdown_code_blocks(bug_report) = <<>>)
        => RaisedWith("No code blocks found")

\* C8, amended: whenever the report has no closed code block, the scorer
\* fails and returns no score; the error is "No code blocks found" when the
\* diff has a chunk, and "No diffs found" when it has none.
C8_NoCodeBlocks ==
    (ScoreOver /\ ~ReportHasBlock) =>
        IF get_str_diff_chunks(base_code, buggy_code) # <<>>
        THEN RaisedWith("No code blocks found")
        ELSE RaisedWith("No diffs found")

\* Codes that differ and a report whose only fence is left open.
C8_Witness ==
    /\ RaisedWith("No code blocks found")
    /\ gt_chunks # <<>>
    /\ \E i \in 1..Len(report_src) : IsFenceLine(report_src[i])

\* The report has a block whose content is exactly the changed line.
QuotesChangedLine ==
    \E i \in 1..Len(report_src) - 2 :
        /\ IsFenceLine(report_src[i])
        /\ report_src[i + 1] = ChangedLine
        /\ IsFenceLine(report_src[i + 2])
        /\ Cardinality({j \in 1..(i - 1) : IsFenceLine(report_src[j])}) % 2 = 0

\* The buggy code is the base code with one line replaced by, or one line
\* inserted as, the changed line.
OneLineChanged ==
    /\ Len(code_edit) = 1
    /\ code_edit[1][1] \in {"replace", "insert"}
    /\ code_edit[1][3] = ChangedLine

ChangedLineAlone ==
    LET ops == get_opcodes(_normalize_lines(base_code), _normalize_lines(buggy_code))
        changed == {k \in 1..Len(ops) : ops[k][1] # "equal"}
    IN  /\ Cardinality(changed) = 1
        /\ \A k \in 1..Len(ops) :
              IF ops[k][1] = "equal"
              THEN ops[k][3] - ops[k][2] >= context_threshold
              ELSE /\ ops[k][1] \in {"replace", "insert"}
                   /\ ops[k][5] - ops[k][4] = 1

C10_ScoreRange ==
    /\ sc_pc = "returned" =>
          /\ Len(score) = 2
          /\ score[2] > 0
          /\ 0 <= score[1]
          /\ score[1] <= score[2]
    /\ ( /\ ScoreOver
         /\ get_str_diff_chunks(base_code, buggy_code) # <<>>
         /\ extract_markdown_code_blocks(bug_report) # <<>> )
          => sc_pc = "returned" /\ sc_error = ""

\* Two chunks have been scored against an empty block and a quoting block,
\* one with full and one with partial credit.
C10_Witness ==
    /\ sc_pc = "returned"
    /\ Len(gt_chunks) = 2
    /\ <<>> \in {sc_blocks[i] : i \in 1..Len(sc_blocks)}
    /\ <<1, 1>> \in {credits[i] : i \in 1..Len(credits)}
    /\ \E i \in 1..Len(credits) : credits[i] # <<1, 1>>
    /\ score[1] < score[2]


\* The score of the same codes and report at the threshold t.
ScoreAt(t) == ScoreOf(gt_chunks, sc_blocks, t)

\* Thresholds the score of a call is compared at, in hundredths.
ThresholdGrid == {0, 50, 60, 67, 80, 100}

\* C11: for the same base, buggy and report, the score at a lower threshold
\* is never below the score at a higher threshold.
C11_ThresholdMonotone ==
    sc_pc = "returned" =>
        \A t \in ThresholdGrid :
            /\ t <= similarity_threshold => FracLeq(score, ScoreAt(t))
            /\ t >= similarity_threshold => FracLeq(ScoreAt(t), score)

\* A partial match between the two thresholds: full credit at the lower
\* one, and a strictly lower score at the higher one.
C11_Witness ==
    /\ sc_pc = "returned"
    /\ similarity_threshold = 80
    /\ score # <<1, 1>>
    /\ ScoreAt(60) = <<1, 1>>


\* The similarity ratios of chunk i to each code block.
RatiosOf(i) ==
    {Similarity(ChunkText(gt_chunks[i]), sc_blocks[j]) : j \in 1..Len(sc_blocks)}

\* C12: every chunk's credit is 1 when the maximum of its similarity ratios
\* over all code blocks reaches the threshold and that maximum otherwise,
\* and the score is the arithmetic mean of the credits of all chunks.
C12_CreditAndMean ==
    sc_pc = "returned" =>
        /\ Len(credits) = Len(gt_chunks)
        /\ \A i \in 1..Len(gt_chunks) :
              \E mx \in RatiosOf(i) :
                 /\ \A q \in RatiosOf(i) : q[1] * mx[2] <= mx[1] * q[2]
                 /\ credits[i] = IF mx[1] * 100 >= similarity_threshold * mx[2]
                                 THEN <<1, 1>> ELSE mx
        /\ LET total == SumFracs(credits)
           IN  score[1] * total[2] * Len(gt_chunks) = total[1] * score[2]

\* Two chunks and two blocks, the second block the better match of the
\* first chunk; one credit full, one partial and not zero.
C12_Witness ==
    /\ sc_pc = "returned"
    /\ Len(gt_chunks) = 2
    /\ Len(sc_blocks) = 2
    /\ FracLeq(Similarity(ChunkText(gt_chunks[1]), sc_blocks[1]), <<1, 2>>)
    /\ credits[1] = <<1, 1>>
    /\ credits[2] \notin {<<0, 1>>, <<1, 1>>}
    /\ score \notin {<<0, 1>>, <<1, 1>>}


\* The further blocks that are added to a report, as lines with their fences.
ExtraBlocks ==
    { FencedBlocks(<<c>>) : c \in { <<>>, <<ChangedLine>>, <<(<<"m">>), (<<"a", "b">>)>> } }

\* The positions of the report outside a code block: before line p, or
\* after the last line, with every fence before it closed.
OutsidePositions ==
    { p \in 1..(Len(report_src) + 1) :
        Cardinality({j \in 1..(p - 1) : IsFenceLine(report_src[j])}) % 2 = 0 }

\* The score of the same codes at the same threshold for the report with the
\* lines x put in before line p.
ScoreWithExtra(p, x) ==
    LET src == SubSeq(report_src, 1, p - 1) \o x \o SubSeq(report_src, p, Len(report_src))
    IN  ScoreOf(gt_chunks, extract_markdown_code_blocks(TextOf(src)), similarity_threshold)

LineSet(text) == {_normalize_lines(text)[i] : i \in 1..Len(_normalize_lines(text))}

\* Old and new share no normalized line.
Disjoint == LineSet(old_text) \cap LineSet(new_text) = {}

\* A text as a chunk side shows it: its normalized lines, joined, trimmed.
WholeText(text) == strip(Flatten(_normalize_lines(text), <<NL>>))

\* Exactly one chunk, holding the whole of both texts.
OneChunkOfEverything ==
    /\ Len(diff_result) = 1
    /\ diff_result[1].old_version = WholeText(old_text)
    /\ diff_result[1].new_version = WholeText(new_text)

\* C14 as stated: when old and new share no normalized line, the result is
\* exactly one chunk whose sides are the whole normalized old and new text
\* (here for two texts that differ).
C14_AsStated == (Done /\ Disjoint /\ old_text # new_text) => OneChunkOfEverything

\* C14, amended: when old and new share no normalized line and at least one
\* of them has a line that is not blank, the result is exactly one chunk
\* whose sides are the whole normalized (and trimmed) old and new text.
C14_DisjointTexts ==
    (Done /\ Disjoint /\ (LineSet(old_text) \cup LineSet(new_text)) \ {<<>>} # {})
        => OneChunkOfEverything

\* Two disjoint texts of several lines, one starting with a blank line,
\* have given their one chunk.
C14_Witness ==
    /\ Done
    /\ Disjoint
    /\ Len(_normalize_lines(old_text)) >= 2
    /\ _normalize_lines(old_text)[1] = <<>>
    /\ Len(_normalize_lines(new_text)) >= 2
    /\ OneChunkOfEverything


\* C15: no chunk that get_str_diff_chunks returns has an old_version equal to
\* its new_version.
C15_PostFilter ==
    Done => \A i \in 1..Len(diff_result) :
                diff_result[i].old_version # diff_result[i].new_version

\* A chunk was returned whose two sides begin with the same absorbed
\* context line and differ after it.
C15_Witness ==
    /\ Done
    /\ Len(diff_result) = 1
    /\ Len(old_lines) >= 2
    /\ Len(new_lines) >= 2
    /\ old_lines[1] = new_lines[1]
    /\ old_lines[1] # <<>>
    /\ diff_result[1].old_version # <<>>
    /\ diff_result[1].new_version # <<>>


\* ----------------------------------------------- extractor: more claims

\* The first three characters of the line after its leading whitespace are
\* backquotes.
TrimmedStartsWithFence(line) ==
    \E k \in 1..(Len(line) - 2) :
        /\ \A j \in 1..(k - 1) : line[j] \in Whitespace
        /\ \A j \in k..(k + 2) : line[j] = Backquote

\* C16: while scanning, the inside-code-block state flips on a line if and
\* only if the line's trimmed content starts with three backquotes; any other
\* line, backquotes elsewhere in it or not, leaves the state as it is and,
\* inside a block, is appended to the block's content.
C16_FenceToggling ==
    [][ Scanning =>
          LET line == md_lines[line_idx] IN
          /\ (in_code_block' # in_code_block) <=> TrimmedStartsWithFence(line)
          /\ (~TrimmedStartsWithFence(line) /\ in_code_block)
                => current_block' = Append(current_block, line)
          /\ (~TrimmedStartsWithFence(line) /\ ~in_code_block)
                => UNCHANGED <<current_block, code_blocks>> ]_vars

\* Inside a block, a line with a fence after other text and a line starting
\* with two backquotes have been kept as content, and the block is open.
C16_Witness ==
    /\ ext_pc = "scan"
    /\ in_code_block
    /\ current_block = << <<"a">> \o Fence, <<Backquote, Backquote, "a">> >>


\* The same markdown lines with the language tag of every fence line on or
\* off: a bare fence gets the tag, a tagged fence loses it.
TagsFlipped(src) ==
    [i \in 1..Len(src) |->
        IF src[i] = Fence THEN Fence \o <<"v">>
        ELSE IF src[i] = <<" ">> \o Fence \o <<"v">> THEN <<" ">> \o Fence
        ELSE src[i]]

\* C17: no returned block has a line that is a fence line (and so none holds
\* a language tag, which is part of the fence line), and the returned blocks
\* are the same when the tags of the fences are added or removed.
C17_FencesExcluded ==
    ExtDone =>
        /\ \A k \in 1..Len(ext_result) :
              \A i \in 1..Len(splitlines(ext_result[k])) :
                 ~TrimmedStartsWithFence(splitlines(ext_result[k])[i])
        /\ extract_markdown_code_blocks(TextOf(TagsFlipped(md_src))) = ext_result

\* A block opened by a tagged fence and closed by a bare one was returned
\* with its content lines only.
C17_Witness ==
    /\ ExtDone
    /\ Len(md_src) = 4
    /\ md_src[1] = <<" ">> \o Fence \o <<"v">>
    /\ md_src[4] = Fence
    /\ ext_result = << <<"a", NL, " ", "a">> >>


\* ---------------------------------------------------- line normalization

\* The first line of a text, as written.
FirstLine(text) == SubSeq(text, 1, FirstNL(text) - 1)

\* The positions of the characters of x that are no whitespace, in order.
InkPositions(x) == SelectSeq([i \in 1..Len(x) |-> i], LAMBDA i : x[i] \notin Whitespace)

\* s and n have the same tokens in the same order: the same characters that
\* are no whitespace, and whitespace between two of them in the one exactly
\* when there is whitespace between them in the other.
SameTokens(s, n) ==
    LET ps == InkPositions(s)
        pn == InkPositions(n)
    IN  /\ Len(ps) = Len(pn)
        /\ \A k \in 1..Len(ps) : s[ps[k]] = n[pn[k]]
        /\ \A k \in 1..(Len(ps) - 1) :
              (ps[k + 1] - ps[k] > 1) <=> (pn[k + 1] - pn[k] > 1)

\* n has no whitespace at its ends, and its only whitespace is single spaces.
Collapsed(n) ==
    /\ n # <<>> => n[1] \notin Whitespace /\ n[Len(n)] \notin Whitespace
    /\ \A i \in 1..Len(n) : n[i] \in Whitespace => n[i] = " "
    /\ \A i \in 1..(Len(n) - 1) : ~(n[i] = " " /\ n[i + 1] = " ")

\* C18: the normalized line has no whitespace at its ends and single spaces
\* for the whitespace runs inside, keeps the tokens of the line in order, and
\* is left unchanged by normalizing it again; and the chunker takes two
\* lines as equal exactly when their normalized forms are equal.
C18_LineNormalization ==
    /\ pc # "start" =>
          /\ Collapsed(old_lines[1])
          /\ SameTokens(FirstLine(old_text), old_lines[1])
          /\ NormLine(old_lines[1]) = old_lines[1]
          /\ (opcodes[1][1] = "equal") <=> (old_lines[1] = new_lines[1])
    /\ Done => ((diff_result = <<>>) <=> (old_lines[1] = new_lines[1]))

\* A line with a tab before it, a run of whitespace inside and a blank after
\* has been normalized and taken as equal to its normalized form.
C18_Witness ==
    /\ Done
    /\ FirstLine(old_text) = <<"\t", "a", " ", "\t", "a">>
    /\ old_lines[1] = <<"a", " ", "a">>
    /\ FirstLine(new_text) = <<"a", "\t", " ", "a">>
    /\ diff_result = <<>>


\* ------------------------------------------------------ interleaved calls

IdChars == {"a", "b", "c", "_", "U", "1", "2", "3", "4"}

\* safe_identifier_regex(name) matches t at position i: the name, with no
\* identifier character before or after it.
MatchesAt(t, name, i) ==
    /\ i + Len(name) - 1 <= Len(t)
    /\ SubSeq(t, i, i + Len(name) - 1) = name
    /\ IF i = 1 THEN TRUE ELSE t[i - 1] \notin IdChars
    /\ IF i + Len(name) > Len(t) THEN TRUE ELSE t[i + Len(name)] \notin IdChars

\* pat.search(text)
search(t, name) == \E i \in 1..Len(t) : MatchesAt(t, name, i)

RECURSIVE subn(_, _, _, _)
\* pat.subn(repl, text): the matches from position i on, left to right.
subn(t, name, repl, i) ==
    IF i > Len(t) THEN <<>>
    ELSE IF MatchesAt(t, name, i) THEN repl \o subn(t, name, repl, i + Len(name))
    ELSE <<t[i]>> \o subn(t, name, repl, i + 1)

RECURSIVE nsub(_, _, _)
\* The number of substitutions pat.subn(repl, text) makes from position i on.
nsub(t, name, i) ==
    IF i > Len(t) THEN 0
    ELSE IF MatchesAt(t, name, i) THEN 1 + nsub(t, name, i + Len(name))
    ELSE nsub(t, name, i + 1)

RECURSIVE replace(_, _, _, _)
\* text.replace(old, new): every occurrence from position i on, left to right.
replace(t, old, new, i) ==
    IF i > Len(t) THEN <<>>
    ELSE IF i + Len(old) - 1 <= Len(t) /\ SubSeq(t, i, i + Len(old) - 1) = old
    THEN new \o replace(t, old, new, i + Len(old))
    ELSE <<t[i]>> \o replace(t, old, new, i + 1)

\* The k-th placeholder drawn: "__UUID_" + uuid4().hex + "__", a name of
\* identifier characters that differs from every other placeholder.
UidOf(k) == <<"_", "_", "U", <<"1", "2", "3", "4">>[k], "_", "_">>

\* Placeholder, putting the new name in at once.
Placeholder_Direct(k, new_name) == new_name

\* What the first step puts in for the k-th name found.
Placeholder(k, new_name) == UidOf(k)

\* mapping.keys() and mapping[old]
Keys(mp) == [i \in 1..Len(mp) |-> mp[i][1]]

LookUp(mp, old) == mp[CHOOSE i \in 1..Len(mp) : mp[i][1] = old][2]

RECURSIVE ByLength(_, _)
\* The keys of length L, then those of length L - 1, ..., each group in the
\* order of keys.
ByLength(keys, L) ==
    IF L = 0 THEN <<>>
    ELSE SelectSeq(keys, LAMBDA k : Len(k) = L) \o ByLength(keys, L - 1)

\* sorted(keys, key=len, reverse=True)
SortedByLen(keys) ==
    LET lens == {Len(keys[i]) : i \in 1..Len(keys)}
    IN  IF keys = <<>> THEN <<>>
        ELSE ByLength(keys, CHOOSE m \in lens : \A l \in lens : l <= m)


\* ---- inputs

\* Texts of names and blanks; old names, one of them part of another; new
\* names, some of them old names too.
RenameTexts == SeqsUpTo({"a", "b", " "}, MaxRenameLen)

OldNames == { <<"a">>, <<"b">>, <<"a", "b">> }

NewNames == { <<"a">>, <<"b">>, <<"c">> }

\* The mappings: up to MaxRenameKeys items with different old names.
Mappings ==
    { mp \in SeqsUpTo(OldNames \X NewNames, MaxRenameKeys) :
        \A i, j \in 1..Len(mp) : i # j => mp[i][1] # mp[j][1] }

InitRename ==
    /\ masked_text \in RenameTexts
    /\ mapping \in Mappings
    /\ rn_pc = "start"
    /\ rn_text = <<>>
    /\ sorted_keys = <<>>
    /\ uuid_map = <<>>
    /\ uid_count = 0
    /\ uid_idx = 1
    /\ rn_result = <<>>
    /\ ChunkerIdle
    /\ ExtractorIdle
    /\ ScorerIdle
    /\ ReordererIdle
    /\ SplitterIdle
    /\ ExporterIdle

\* ---- actions

\* Lines 397-400: the locals, and the keys in the order of the loop.
RenameBegin ==
    /\ rn_pc = "start"
    /\ uuid_map' = <<>>
    /\ rn_text' = masked_text
    /\ sorted_keys' = SortedByLen(Keys(mapping))
    /\ rn_pc' = "step1"
    /\ UNCHANGED <<masked_text, mapping, uid_count, uid_idx, rn_result, not_renamer>>

\* Lines 401-404: a name that is not in the text is skipped.
RenameSkip ==
    /\ rn_pc = "step1"
    /\ sorted_keys # <<>>
    /\ ~search(rn_text, Head(sorted_keys))
    /\ sorted_keys' = Tail(sorted_keys)
    /\ UNCHANGED <<rn_pc, masked_text, mapping, rn_text, uuid_map, uid_count, uid_idx,
                   rn_result, not_renamer>>

\* Lines 405-408: a name that is in the text gives way to a placeholder,
\* which is kept with the new name it stands for.
RenameOldToUid ==
    /\ rn_pc = "step1"
    /\ sorted_keys # <<>>
    /\ search(rn_text, Head(sorted_keys))
    /\ LET old == Head(sorted_keys)
           uid == Placeholder(uid_count + 1, LookUp(mapping, old))
       IN  /\ rn_text' = subn(rn_text, old, uid, 1)
           /\ uuid_map' = IF nsub(rn_text, old, 1) > 0
                           THEN Append(uuid_map, <<uid, LookUp(mapping, old)>>)
                           ELSE uuid_map
    /\ uid_count' = uid_count + 1
    /\ sorted_keys' = Tail(sorted_keys)
    /\ UNCHANGED <<rn_pc, masked_text, mapping, uid_idx, rn_result, not_renamer>>

\* Line 412: the first loop is over, the second begins.
RenameStepTwo ==
    /\ rn_pc = "step1"
    /\ sorted_keys = <<>>
    /\ uid_idx' = 1
    /\ rn_pc' = "step2"
    /\ UNCHANGED <<masked_text, mapping, rn_text, sorted_keys, uuid_map, uid_count,
                   rn_result, not_renamer>>

\* Lines 412-413: a placeholder gives way to its new name.
RenameUidToNew ==
    /\ rn_pc = "step2"
    /\ uid_idx <= Len(uuid_map)
    /\ rn_text' = replace(rn_text, uuid_map[uid_idx][1], uuid_map[uid_idx][2], 1)
    /\ uid_idx' = uid_idx + 1
    /\ UNCHANGED <<rn_pc, masked_text, mapping, sorted_keys, uuid_map, uid_count,
                   rn_result, not_renamer>>

\* Line 414.
RenameReturn ==
    /\ rn_pc = "step2"
    /\ uid_idx > Len(uuid_map)
    /\ rn_result' = rn_text
    /\ rn_pc' = "done"
    /\ UNCHANGED <<masked_text, mapping, rn_text, sorted_keys, uuid_map, uid_count,
                   uid_idx, not_renamer>>

NextRename ==
    \/ RenameBegin
    \/ RenameSkip
    \/ RenameOldToUid
    \/ RenameStepTwo
    \/ RenameUidToNew
    \/ RenameReturn

SpecRename == InitRename /\ [][NextRename]_vars

RenameDone == rn_pc = "done"

\* ---- claims

RECURSIVE TokenEndFrom(_, _)
\* The last position of the run of identifier characters that starts at i.
TokenEndFrom(t, i) ==
    IF i < Len(t) /\ t[i + 1] \in IdChars THEN TokenEndFrom(t, i + 1) ELSE i

RECURSIVE Simultaneous(_, _, _)
\* The text t from position i on with every identifier token (a maximal run
\* of identifier characters) that is an old name of mp replaced by its new
\* name, and everything else as it is.
Simultaneous(t, mp, i) ==
    IF i > Len(t) THEN <<>>
    ELSE IF t[i] \notin IdChars THEN <<t[i]>> \o Simultaneous(t, mp, i + 1)
    ELSE LET e == TokenEndFrom(t, i)
             tok == SubSeq(t, i, e)
         IN  (IF \E k \in 1..Len(mp) : mp[k][1] = tok THEN LookUp(mp, tok) ELSE tok)
                \o Simultaneous(t, mp, e + 1)

\* C20: apply_mapping_two_step returns the text with every standalone
\* identifier token that is a key of the mapping replaced by the key's value,
\* all at once: a new name that is a key too is not renamed again, a token
\* that only contains a key is unchanged, and an empty mapping changes
\* nothing.
C20_SimultaneousRenaming ==
    RenameDone =>
        /\ rn_result = Simultaneous(masked_text, mapping, 1)
        /\ mapping = <<>> => rn_result = masked_text

\* A swap a -> b, b -> a was applied to a text with both names and with a
\* token that contains them.
C20_Witness ==
    /\ RenameDone
    /\ mapping = << <<(<<"a">>), (<<"b">>)>>, <<(<<"b">>), (<<"a">>)>> >>
    /\ masked_text = <<"a", " ", "b", "a">>
    /\ rn_result = <<"b", " ", "b", "a">>


\* ------------------------------------------------ claims on absorbed context

\* The lines of the old text an opcode spans (for an equal opcode they are
\* the lines of the new text it spans too).
RunOf(op) == Slice(old_lines, op[2], op[3])

IsSuffix(r, s) == Len(r) <= Len(s) /\ SubSeq(s, Len(s) - Len(r) + 1, Len(s)) = r

\* The lines r are consecutive lines of the text.
HoldsLines(text, r) ==
    LET ls == splitlines(text)
    IN  \E i \in 1..(Len(ls) - Len(r) + 1) : SubSeq(ls, i, i + Len(r) - 1) = r

\* The run r as a flushed chunk shows it: joined and trimmed.
TrimmedRun(r) == splitlines(strip(Flatten(r, <<NL>>)))

ShortRuns == {k \in 1..Len(opcodes) : opcodes[k][1] = "equal" /\ ~IsSplit(opcodes[k])}

\* As stated: whenever the texts differ in more than blank lines, every
\* unchanged run shorter than 3 lines appears in old_version and new_version
\* of a returned chunk.
C21_AsStated ==
    (Done /\ ~WhitespaceOnly(old_text, new_text)) =>
        \A k \in ShortRuns :
            \E i \in 1..Len(diff_result) :
                /\ HoldsLines(diff_result[i].old_version, RunOf(opcodes[k]))
                /\ HoldsLines(diff_result[i].new_version, RunOf(opcodes[k]))

\* C21: an unchanged run shorter than 3 lines is appended to both sides of
\* the pending chunk, and a run of 3 or more lines to neither: after it
\* nothing is pending. Every short run, trimmed of the blank lines that the
\* flush trims, is in both sides of a flushed chunk, which is returned when
\* its sides differ.
C21_ContextAbsorption ==
    /\ (pc = "walk" /\ op_idx > 1 /\ opcodes[op_idx - 1][1] = "equal") =>
          IF IsSplit(opcodes[op_idx - 1])
          THEN current_old_chunk = <<>> /\ current_new_chunk = <<>>
          ELSE /\ IsSuffix(RunOf(opcodes[op_idx - 1]), current_old_chunk)
               /\ IsSuffix(RunOf(opcodes[op_idx - 1]), current_new_chunk)
    /\ Done =>
          \A k \in ShortRuns :
              \E i \in 1..Len(diffs) :
                  /\ HoldsLines(diffs[i].old_version, TrimmedRun(RunOf(opcodes[k])))
                  /\ HoldsLines(diffs[i].new_version, TrimmedRun(RunOf(opcodes[k])))
                  /\ diffs[i].old_version # diffs[i].new_version
                        => \E j \in 1..Len(diff_result) : diff_result[j] = diffs[i]

\* A run of one line next to an edit was absorbed and is in both sides of
\* the returned chunk, and a run of three lines is in no chunk.
C21_Witness ==
    /\ Done
    /\ Len(diff_result) = 1
    /\ \E k \in 1..Len(opcodes) : IsSplit(opcodes[k])
    /\ \E k \in ShortRuns : \E i \in 1..Len(diff_result) :
          /\ RunOf(opcodes[k]) # <<>>
          /\ HoldsLines(diff_result[i].old_version, RunOf(opcodes[k]))
          /\ HoldsLines(diff_result[i].new_version, RunOf(opcodes[k]))


\* ---- inputs made by inserting a block of lines (C22)

\* The blocks of non-blank lines that are inserted.
InsertedBlocks == SeqsUpTo({ <<"a">>, <<"m">> }, MaxInserted) \ { <<>> }

\* new_text is old_text with a block inserted before line p (after the last
\* line when p is one more than the number of lines).
InitInsert ==
    /\ \E ls \in SeqsUpTo(EditAlphabet, MaxEditLines) :
         \E p \in 1..(Len(ls) + 1) :
            \E ins \in InsertedBlocks :
                /\ old_text = TextOf(ls)
                /\ new_text = TextOf(SubSeq(ls, 1, p - 1) \o ins \o SubSeq(ls, p, Len(ls)))
                /\ script = [k \in 1..Len(ins) |-> <<"insert", p + k - 1, ins[k]>>]
    /\ ChunkerLocalsInit
    /\ ExtractorIdle
    /\ ScorerIdle
    /\ RenamerIdle
    /\ ReordererIdle
    /\ SplitterIdle
    /\ ExporterIdle

SpecInsert == InitInsert /\ [][NextDiff]_vars

\* C22 as stated: whenever new_text is old_text with non-blank lines inserted
\* at one position, every returned chunk has an empty old_version.
C22_AsStated ==
    Done => \A i \in 1..Len(diff_result) : diff_result[i].old_version = <<>>

\* The alignment is one insert segment, and every equal segment around it has
\* 3 or more lines (or is absent).
LoneInsertFarFromContext ==
    \E k \in 1..Len(opcodes) :
        /\ opcodes[k][1] = "insert"
        /\ \A h \in 1..Len(opcodes) : h # k => IsSplit(opcodes[h])

\* C22, amended. Pure insertion: whenever new_text is old_text with non-blank
\* lines inserted at one position, the matcher aligns the two texts as one
\* insert segment, and the unchanged lines before it and those after it number
\* 3 or more (or none), get_str_diff_chunks returns exactly one chunk, with
\* an empty old_version and a new_version that is not empty.
C22_PureInsertion ==
    (Done /\ LoneInsertFarFromContext) =>
        /\ Len(diff_result) = 1
        /\ diff_result[1].old_version = <<>>
        /\ diff_result[1].new_version # <<>>

\* A block of two lines was inserted, and is aligned as one insert segment
\* after three unchanged lines.
C22_Witness ==
    /\ Done
    /\ LoneInsertFarFromContext
    /\ Len(script) = 2
    /\ Len(opcodes) = 2
    /\ opcodes[1][1] = "equal"
    /\ Len(diff_result) = 1
    /\ diff_result[1].old_version = <<>>
    /\ diff_result[1].new_version = <<"m", NL, "a">>


\* ---- the returned versions (C23)

\* The lines ls are consecutive lines of the list all.
IsSliceOf(ls, all) ==
    \E i \in 1..(Len(all) - Len(ls) + 1) : SubSeq(all, i, i + Len(ls) - 1) = ls

\* A version as get_str_diff_chunks returns it for the text it was cut from:
\* nothing to trim at its ends, and its lines are normalized lines of the
\* text, consecutive ones and so in the order of the text.
TrimmedNormalized(version, text) ==
    /\ strip(version) = version
    /\ IsSliceOf(splitlines(version), _normalize_lines(text))

\* C23: every old_version and new_version returned has no leading or
\* trailing whitespace, and its lines are normalized lines of the
\* corresponding input, in input order.
C23_TrimmedNormalized ==
    Done =>
        \A i \in 1..Len(diff_result) :
            /\ TrimmedNormalized(diff_result[i].old_version, old_text)
            /\ TrimmedNormalized(diff_result[i].new_version, new_text)

\* A blank line and a line with indentation and a tab were replaced: the
\* old_version is the normalized line alone.
C23_Witness ==
    /\ Done
    /\ old_text = <<NL, " ", "a", "\t", " ", "b", " ">>
    /\ new_text = <<"c">>
    /\ diff_result = <<[old_version |-> <<"a", " ", "b">>, new_version |-> <<"c">>]>>


\* ---- what the post-filter removes (C26)

RECURSIVE TrimBlank(_)
\* The lines ls without the blank lines at their two ends.
TrimBlank(ls) ==
    IF ls = <<>> THEN <<>>
    ELSE IF Head(ls) = <<>> THEN TrimBlank(Tail(ls))
    ELSE IF ls[Len(ls)] = <<>> THEN TrimBlank(SubSeq(ls, 1, Len(ls) - 1))
    ELSE ls

\* The regions of the alignment: the longest runs a..b of opcodes none of
\* which is an unchanged run of 3 or more lines.
Regions ==
    { r \in (1..Len(opcodes)) \X (1..Len(opcodes)) :
        /\ r[1] <= r[2]
        /\ \A k \in r[1]..r[2] : ~IsSplit(opcodes[k])
        /\ r[1] > 1 => IsSplit(opcodes[r[1] - 1])
        /\ r[2] < Len(opcodes) => IsSplit(opcodes[r[2] + 1]) }

\* The lines of the old text and of the new text in a region.
RegionOld(r) == Slice(_normalize_lines(old_text), opcodes[r[1]][2], opcodes[r[2]][3])

RegionNew(r) == Slice(_normalize_lines(new_text), opcodes[r[1]][4], opcodes[r[2]][5])

Returned(d) == \E i \in 1..Len(diff_result) : diff_result[i] = d

\* C26: when the non-blank normalized lines of old and new differ, at least
\* one chunk is returned; and the chunk of a region is returned unless the
\* two sides of the region differ in blank lines at their ends only.
C26_RealChangeShown ==
    Done =>
        /\ ~WhitespaceOnly(old_text, new_text) => diff_result # <<>>
        /\ \A r \in Regions :
              \/ Returned(StringDiff(RegionOld(r), RegionNew(r)))
              \/ TrimBlank(RegionOld(r)) = TrimBlank(RegionNew(r))

\* A line was replaced in a text that also lost a blank line at its start:
\* the chunk is returned.
C26_Witness ==
    /\ Done
    /\ ~WhitespaceOnly(old_text, new_text)
    /\ Len(_normalize_lines(old_text)) > Len(_normalize_lines(new_text))
    /\ Head(_normalize_lines(old_text)) = <<>>
    /\ Len(diff_result) = 1
    /\ diff_result[1].old_version = <<"c">>
    /\ diff_result[1].new_version = <<"a", " ", "b">>


\* ---- what separates two chunks (C27)

\* An aligned run of 3 or more unchanged lines.
LongRun(op) == op[1] = "equal" /\ op[3] - op[2] >= 3

LongRuns == {k \in 1..Len(opcodes) : LongRun(opcodes[k])}

\* The chunk d lies before the run op in both texts, the chunk e after it.
Separates(op, d, e) ==
    LET ol == _normalize_lines(old_text)
        nl == _normalize_lines(new_text)
    IN  /\ IsSliceOf(splitlines(d.old_version), Slice(ol, 0, op[2]))
        /\ IsSliceOf(splitlines(d.new_version), Slice(nl, 0, op[4]))
        /\ IsSliceOf(splitlines(e.old_version), Slice(ol, op[3], Len(ol)))
        /\ IsSliceOf(splitlines(e.new_version), Slice(nl, op[5], Len(nl)))

\* C27: the returned chunks are in document order, two consecutive ones are
\* separated in both texts by an aligned run of 3 or more unchanged lines,
\* and there is at most one chunk more than there are such runs; while the
\* call runs, no more chunks are flushed than such runs have been passed.
C27_ChunkSeparation ==
    /\ pc = "walk" => Len(diffs) <= Cardinality({k \in LongRuns : k < op_idx})
    /\ Done =>
          /\ Len(diff_result) <= Cardinality(LongRuns) + 1
          /\ \A i \in 1..(Len(diff_result) - 1) :
                \E k \in LongRuns :
                    Separates(opcodes[k], diff_result[i], diff_result[i + 1])

\* The first line was replaced by a blank line and the last by another line,
\* with three unchanged lines between them: two chunks, in that order.
C27_Witness ==
    /\ Done
    /\ Cardinality(LongRuns) = 1
    /\ old_text = <<"a", NL, "m", NL, "m", NL, "m", NL, "a">>
    /\ new_text = <<" ", NL, "m", NL, "m", NL, "m", NL, "m">>
    /\ diff_result = << [old_version |-> <<"a">>, new_version |-> <<>>],
                        [old_version |-> <<"a">>, new_version |-> <<"m">>] >>


\* ---- the number of blocks (C28)

\* The positions, in order, of the lines of the text whose trimmed content
\* starts with three backquotes.
FenceLinesOf(text) ==
    LET ls == splitlines(text)
    IN  SelectSeq([i \in 1..Len(ls) |-> i], LAMBDA i : TrimmedStartsWithFence(ls[i]))

\* The lines of the text strictly between its fence lines 2k-1 and 2k, joined
\* by newlines.
BlockBetween(text, k) ==
    LET fp == FenceLinesOf(text)
    IN  Flatten(SubSeq(splitlines(text), fp[2 * k - 1] + 1, fp[2 * k] - 1), <<NL>>)

\* C28: the extractor returns floor(F / 2) blocks, F the number of fence
\* lines of the text, and the k-th block is the lines strictly between fence
\* lines 2k-1 and 2k: no other line is in a block, and an opening fence
\* followed at once by a closing fence gives the empty block.
C28_BlockCount ==
    ExtDone =>
        /\ Len(ext_result) = Len(FenceLinesOf(markdown)) \div 2
        /\ \A k \in 1..Len(ext_result) : ext_result[k] = BlockBetween(markdown, k)

\* Three fence lines: an empty block, then a fence that is left open with a
\* line after it. One block, the empty one, is returned.
C28_Witness ==
    /\ ExtDone
    /\ Len(FenceLinesOf(markdown)) = 3
    /\ FenceLinesOf(markdown)[2] = FenceLinesOf(markdown)[1] + 1
    /\ in_code_block
    /\ current_block = << <<" ", "a">> >>
    /\ ext_result = << <<>> >>


\* ------------------------------------------------------- reorder_chunks

\* The dataclass Chunk.
Chunk(kind, text, pinned, id) == [kind |-> kind, text |-> text, pinned |-> pinned, id |-> id]

\* The indices i of the list (as the code counts them, from 0) with P(i).
IndicesWhere(chunks, P(_)) ==
    SelectSeq([k \in 1..Len(chunks) |-> k - 1], P)

\* chunks[i], i counted from 0.
At(chunks, i) == chunks[i + 1]

RECURSIVE KindsInOrder(_, _)
\* The kinds of the chunks that are not pinned, each once, in the order of
\* their first chunk: the keys of reorderable_indices_by_kind.
KindsInOrder(chunks, seen) ==
    IF chunks = <<>> THEN <<>>
    ELSE IF Head(chunks).pinned \/ Head(chunks).kind \in seen
         THEN KindsInOrder(Tail(chunks), seen)
         ELSE <<Head(chunks).kind>>
                 \o KindsInOrder(Tail(chunks), seen \cup {Head(chunks).kind})

\* Lines 207-212: the items <<kind, indices>> of reorderable_indices_by_kind.
reorderable_indices_by_kind(chunks) ==
    LET kinds == KindsInOrder(chunks, {})
    IN  [k \in 1..Len(kinds) |->
            <<kinds[k],
              IndicesWhere(chunks, LAMBDA i : /\ ~At(chunks, i).pinned
                                              /\ At(chunks, i).kind = kinds[k])>>]

\* Lines 237-250: the items <<name, indices>> of buckets.
buckets(chunks) ==
    LET in(kinds) == IndicesWhere(chunks, LAMBDA i : /\ ~At(chunks, i).pinned
                                                     /\ At(chunks, i).kind \in kinds)
    IN  << <<"types_params_decls", in({"param", "typedef", "decl"})>>,
           <<"assigns", in({"assign"})>>,
           <<"procedural", in({"always", "func", "inst"})>> >>

\* Line 262: the one group of the aggressive level.
aggressive_all(chunks) ==
    << <<"aggressive_all", IndicesWhere(chunks, LAMBDA i : ~At(chunks, i).pinned)>> >>

\* GroupsOf, with all chunks that are not pinned in one group at every level.
GroupsOf_AcrossKinds(chunks, level) == aggressive_all(chunks)

\* The groups the level shuffles, in the order it shuffles them.
GroupsOf(chunks, level) ==
    IF level = "safe" THEN reorderable_indices_by_kind(chunks)
    ELSE IF level = "medium" THEN buckets(chunks)
    ELSE aggressive_all(chunks)

\* The orders random.shuffle may leave a list of n items in: shuffled[j] is
\* the item that was at f[j].
Shuffles(n) == {f \in [1..n -> 1..n] : \A i, j \in 1..n : i # j => f[i] # f[j]}

\* PlaceBack, putting the first chunk of the group at every index of it.
PlaceBack_First(new, indices, shuffled) ==
    [k \in 1..Len(new) |->
        IF \E j \in 1..Len(indices) : indices[j] = k - 1
        THEN shuffled[1]
        ELSE new[k]]

\* Lines 231-232, 257-258, 266-267: new_chunks[pos_idx] = new_chunk for the
\* indices and the shuffled chunks, pair by pair.
PlaceBack(new, indices, shuffled) ==
    [k \in 1..Len(new) |->
        IF \E j \in 1..Len(indices) : indices[j] = k - 1
        THEN shuffled[CHOOSE j \in 1..Len(indices) : indices[j] = k - 1]
        ELSE new[k]]

\* ---- inputs

\* The kinds of the chunks of a call and whether such a chunk is pinned. The
\* text of a chunk plays no part in the reordering: it is empty, and the id is
\* the index of the chunk.
ChunkTypes ==
    { <<"assign", FALSE>>, <<"decl", FALSE>>, <<"param", FALSE>>, <<"always", FALSE>>,
      <<"pinned", TRUE>> }

Levels == {"safe", "medium", "aggressive"}

InitReorder ==
    /\ \E ts \in SeqsUpTo(ChunkTypes, MaxChunks) :
          ro_chunks = [k \in 1..Len(ts) |-> Chunk(ts[k][1], <<>>, ts[k][2], k - 1)]
    /\ ro_level \in Levels
    /\ ro_pc = "start"
    /\ ro_new_chunks = <<>>
    /\ ro_groups = <<>>
    /\ ro_mapping = <<>>
    /\ ro_result = <<>>
    /\ ChunkerIdle
    /\ ExtractorIdle
    /\ ScorerIdle
    /\ RenamerIdle
    /\ SplitterIdle
    /\ ExporterIdle

\* ---- actions

\* Lines 205-218 and the choice of the groups of the level.
ReorderBegin ==
    /\ ro_pc = "start"
    /\ ro_groups' = GroupsOf(ro_chunks, ro_level)
    /\ ro_mapping' = <<>>
    /\ ro_new_chunks' = ro_chunks
    /\ ro_pc' = "loop"
    /\ UNCHANGED <<ro_chunks, ro_level, ro_result, not_reorderer>>

IdsOf(cs) == [j \in 1..Len(cs) |-> cs[j].id]

\* Lines 223-225: at the safe level a group of one chunk is not shuffled.
ReorderKeep ==
    /\ ro_pc = "loop"
    /\ ro_groups # <<>>
    /\ ro_level = "safe"
    /\ Len(Head(ro_groups)[2]) <= 1
    /\ LET indices == Head(ro_groups)[2]
       IN  ro_mapping' = Append(ro_mapping,
                <<Head(ro_groups)[1],
                  IdsOf([j \in 1..Len(indices) |-> At(ro_chunks, indices[j])])>>)
    /\ ro_groups' = Tail(ro_groups)
    /\ UNCHANGED <<ro_pc, ro_chunks, ro_level, ro_new_chunks, ro_result, not_reorderer>>

\* Lines 252-253: at the medium level an empty bucket is passed over.
ReorderSkipEmpty ==
    /\ ro_pc = "loop"
    /\ ro_groups # <<>>
    /\ ro_level = "medium"
    /\ Head(ro_groups)[2] = <<>>
    /\ ro_groups' = Tail(ro_groups)
    /\ UNCHANGED <<ro_pc, ro_chunks, ro_level, ro_new_chunks, ro_mapping, ro_result,
                   not_reorderer>>

\* Lines 227-233, 254-259, 263-268: the chunks of the group are shuffled and
\* placed back at the indices of the group.
ReorderShuffle ==
    /\ ro_pc = "loop"
    /\ ro_groups # <<>>
    /\ IF ro_level = "safe" THEN Len(Head(ro_groups)[2]) > 1
       ELSE IF ro_level = "medium" THEN Head(ro_groups)[2] # <<>>
       ELSE TRUE
    /\ LET indices == Head(ro_groups)[2]
           orig == [j \in 1..Len(indices) |-> At(ro_chunks, indices[j])]
       IN  \E f \in Shuffles(Len(indices)) :
              LET shuffled == [j \in 1..Len(indices) |-> orig[f[j]]]
              IN  /\ ro_new_chunks' = PlaceBack(ro_new_chunks, indices, shuffled)
                  /\ ro_mapping' = Append(ro_mapping, <<Head(ro_groups)[1], IdsOf(shuffled)>>)
    /\ ro_groups' = Tail(ro_groups)
    /\ UNCHANGED <<ro_pc, ro_chunks, ro_level, ro_result, not_reorderer>>

\* Line 270.
ReorderReturn ==
    /\ ro_pc = "loop"
    /\ ro_groups = <<>>
    /\ ro_result' = <<ro_new_chunks, ro_mapping>>
    /\ ro_pc' = "done"
    /\ UNCHANGED <<ro_chunks, ro_level, ro_new_chunks, ro_groups, ro_mapping, not_reorderer>>

NextReorder ==
    \/ ReorderBegin
    \/ ReorderKeep
    \/ ReorderSkipEmpty
    \/ ReorderShuffle
    \/ ReorderReturn

SpecReorder == InitReorder /\ [][NextReorder]_vars

ReorderDone == ro_pc = "done"

\* ---- claims

\* C24: at the safe level, for every order a shuffle may give, the kind of
\* the returned chunk at every index is the kind of the chunk that was there.
C24_SafeKeepsKinds ==
    (ReorderDone /\ ro_level = "safe") =>
        /\ Len(ro_result[1]) = Len(ro_chunks)
        /\ \A k \in 1..Len(ro_chunks) : ro_result[1][k].kind = ro_chunks[k].kind

\* Two assign chunks with a decl chunk between them have changed places.
C24_Witness ==
    /\ ReorderDone
    /\ ro_level = "safe"
    /\ Len(ro_chunks) = 3
    /\ ro_chunks[2].kind = "decl"
    /\ ro_result[1] = <<ro_chunks[3], ro_chunks[2], ro_chunks[1]>>
    /\ ro_chunks[1].kind = "assign"

\* How many times the chunk c is in the list.
Times(c, cs) == Cardinality({k \in 1..Len(cs) : cs[k] = c})

\* C29: at every level, for every order a shuffle may give, the returned
\* list has the length of the input, holds every input chunk as many times
\* as the input does, and has every pinned chunk at its index.
C29_PermutationFixingPinned ==
    ReorderDone =>
        /\ Len(ro_result[1]) = Len(ro_chunks)
        /\ \A k \in 1..Len(ro_chunks) :
              /\ Times(ro_chunks[k], ro_result[1]) = Times(ro_chunks[k], ro_chunks)
              /\ ro_chunks[k].pinned => ro_result[1][k] = ro_chunks[k]

\* At the aggressive level an assign chunk and a decl chunk around a pinned
\* chunk have changed places.
C29_Witness ==
    /\ ReorderDone
    /\ ro_level = "aggressive"
    /\ Len(ro_chunks) = 3
    /\ ro_chunks[1].kind = "assign"
    /\ ro_chunks[2].pinned
    /\ ro_chunks[3].kind = "decl"
    /\ ro_result[1] = <<ro_chunks[3], ro_chunks[2], ro_chunks[1]>>


\* ---------------------------------------------------------------------------
\* split_module_into_chunks (obfuscate/shuffle_rtl_3.py)
\*
\* The module text is a sequence of lexical units: a keyword is one unit, "x"
\* is one character of an identifier, and every other unit is one character.
\* Adjacent word units form one longer word, so a keyword next to a word unit
\* is not a keyword of its own (the \b of the patterns). A span is the pair
\* <<s, e>> of m.span(), counted in units; the empty tuple is "no match".

\* The largest number of pieces of a module text.
MaxPieces == 3

SplitKeywords ==
    {"generate", "endgenerate", "parameter", "localparam", "typedef", "wire",
     "reg", "logic", "bit", "byte", "int", "shortint", "longint", "assign",
     "always", "initial", "end", "function", "task", "endfunction", "endtask"}

\* The units \w matches.
WordUnits == SplitKeywords \cup {"x"}

\* The units [ \t] matches, and the units \s matches.
BlankUnits == {" ", "\t"}

SpaceUnits == {" ", "\t", NL}

IsWord(b, i) == IF i < 1 \/ i > Len(b) THEN FALSE ELSE b[i] \in WordUnits

\* \b(?:kws)\b at unit i.
KeywordAt(b, i, kws) == b[i] \in kws /\ ~IsWord(b, i - 1) /\ ~IsWord(b, i + 1)

Least(S) == CHOOSE x \in S : \A y \in S : x <= y

\* The units at which each closing part of a pattern matches.
Semis(b) == {j \in 1..Len(b) : b[j] = ";"}

AlwaysEnds(b) == {j \in 1..Len(b) : b[j] = ";" \/ (b[j] = "end" /\ ~IsWord(b, j + 1))}

FuncEnds(b) == {j \in 1..Len(b) : KeywordAt(b, j, {"endfunction", "endtask"})}

GenerateEnds(b) == {j \in 1..Len(b) : KeywordAt(b, j, {"endgenerate"})}

\* A keyword at unit i, then as few units as possible up to a closing part.
KeywordMatch(b, i, kws, stops) ==
    IF KeywordAt(b, i, kws) /\ {j \in stops : j > i} # {}
    THEN <<i - 1, Least({j \in stops : j > i})>>
    ELSE <<>>

\* The first unit from i on that is not in the class C (Len(b) + 1 if none).
Skip(b, i, C) == Least({j \in i..(Len(b) + 1) : IF j > Len(b) THEN TRUE ELSE b[j] \notin C})

Is(b, i, u) == IF i > Len(b) THEN FALSE ELSE b[i] = u

\* The units [^;{)] matches in b.
NotClosing(b) == {b[j] : j \in 1..Len(b)} \ {";", "{", ")"}

\* The ends of INSTANCE_RE at unit i: the start of a line, blanks up to a, a
\* name up to c, blanks up to d, a name up to f, blanks up to g, "(", units
\* other than ; { ) up to the first ")" at h, white space, and ";" at k.
InstanceEnds(b, i) ==
    {k \in i..Len(b) :
        /\ IF i = 1 THEN TRUE ELSE b[i - 1] = NL
        /\ \E a \in {Skip(b, i, BlankUnits)} :
           \E c \in {Skip(b, a, WordUnits)} :
              /\ c > a
              /\ \E d \in {Skip(b, c, BlankUnits)} :
                    /\ d > c
                    /\ \E f \in {Skip(b, d, WordUnits)} :
                          /\ f > d
                          /\ \E g \in {Skip(b, f, BlankUnits)} :
                                /\ Is(b, g, "(")
                                /\ \E h \in {Skip(b, g + 1, NotClosing(b))} :
                                      /\ Is(b, h, ")")
                                      /\ k = Skip(b, h + 1, SpaceUnits)
                                      /\ b[k] = ";"}

InstanceMatch(b, i) ==
    IF InstanceEnds(b, i) = {} THEN <<>> ELSE <<i - 1, Least(InstanceEnds(b, i))>>

\* The match of a pattern that starts at unit i.
MatchAt(kind, b, i) ==
    CASE kind = "generate" -> KeywordMatch(b, i, {"generate"}, GenerateEnds(b))
      [] kind = "param" -> KeywordMatch(b, i, {"parameter", "localparam"}, Semis(b))
      [] kind = "typedef" -> KeywordMatch(b, i, {"typedef"}, Semis(b))
      [] kind = "decl" ->
            KeywordMatch(b, i, {"wire", "reg", "logic", "bit", "byte", "int",
                                "shortint", "longint"}, Semis(b))
      [] kind = "assign" -> KeywordMatch(b, i, {"assign"}, Semis(b))
      [] kind = "always" -> KeywordMatch(b, i, {"always", "initial"}, AlwaysEnds(b))
      [] kind = "func" -> KeywordMatch(b, i, {"function", "task"}, FuncEnds(b))
      [] kind = "inst" -> InstanceMatch(b, i)

\* pat.search(body, idx): the match with the leftmost start at or after idx.
Search(kind, b, from) ==
    LET spans == {MatchAt(kind, b, i) : i \in (from + 1)..Len(b)} \ {<<>>}
    IN  IF spans = {} THEN <<>> ELSE CHOOSE m \in spans : \A o \in spans : m[1] <= o[1]

\* The patterns in the order in which the scan tries them.
patterns == <<"generate", "param", "typedef", "decl", "assign", "always", "func", "inst">>

\* F(v), with v evaluated once.
With(v, F(_)) == CHOOSE r \in {F(x) : x \in {v}} : TRUE

\* The loop over the patterns: <<nearest_kind, nearest_span>> after the
\* patterns from k on, the empty tuple while nearest_start is None.
RECURSIVE NearestFrom(_, _, _, _)

NearestFrom(b, from, k, nearest) ==
    IF k > Len(patterns) THEN nearest
    ELSE With(Search(patterns[k], b, from),
              LAMBDA m :
                  IF m # <<>> /\ (IF nearest = <<>> THEN TRUE ELSE m[1] < nearest[2][1])
                  THEN NearestFrom(b, from, k + 1, <<patterns[k], m>>)
                  ELSE NearestFrom(b, from, k + 1, nearest))

Nearest(b, from) == NearestFrom(b, from, 1, <<>>)

\* make_chunk_id: the kind and the number of the chunk.
make_chunk_id(kind, n) == <<kind, n>>

\* The pinned chunk of the text before the match, if there is such text.
PreChunks_Dropped(b, from, nearest_start, counter) == <<>>

PreChunks(b, from, nearest_start, counter) ==
    IF nearest_start > from
    THEN << Chunk("pinned", Slice(b, from, nearest_start), TRUE,
                  make_chunk_id("pinned", counter)) >>
    ELSE <<>>

\* ---- inputs

\* The pieces of a module text: single units, and the head of an instantiation.
SplitPieces ==
    { <<"generate">>, <<"endgenerate">>, <<"wire">>, <<"assign">>, <<"always">>,
      <<"end">>, <<"function">>, <<"endfunction">>,
      <<";">>, <<"x">>, <<" ">>, <<NL>>, <<")">>, <<"x", " ", "x", "(">> }

RECURSIVE JoinPieces(_)

JoinPieces(ps) == IF ps = <<>> THEN <<>> ELSE Head(ps) \o JoinPieces(Tail(ps))

\* A sequence of units is the reading of a text if no two adjacent units spell
\* a keyword that is a unit of its own ("end" before "generate" is the one
\* unit "endgenerate").
Lexed(b) ==
    \A j \in 1..(Len(b) - 1) : ~(b[j] = "end" /\ b[j + 1] \in {"generate", "function", "task"})

\* The module texts of the calls.
ModuleTexts == {b \in {JoinPieces(ps) : ps \in SeqsUpTo(SplitPieces, MaxPieces)} : Lexed(b)}

InitSplit ==
    /\ SplitterIdle
    /\ ChunkerIdle
    /\ ExtractorIdle
    /\ ScorerIdle
    /\ RenamerIdle
    /\ ReordererIdle
    /\ ExporterIdle

\* ---- actions

\* Lines 121-137: the call with a module text.
SplitCall ==
    /\ sp_pc = "idle"
    /\ body' \in ModuleTexts
    /\ sp_chunks' = <<>>
    /\ idx' = 0
    /\ chunk_counter' = 0
    /\ sp_pc' = "loop"
    /\ UNCHANGED sp_result
    /\ UNCHANGED not_splitter

\* Lines 150-162: no pattern matches from idx on; the remainder becomes a
\* pinned chunk and the loop ends.
SplitRemainder ==
    /\ sp_pc = "loop"
    /\ idx < Len(body)
    /\ \E nearest \in {Nearest(body, idx)} : nearest = <<>>
    /\ LET remainder == Slice(body, idx, Len(body))
       IN  IF remainder # <<>>
           THEN /\ sp_chunks' = Append(sp_chunks, Chunk("pinned", remainder, TRUE,
                                                        make_chunk_id("pinned", chunk_counter)))
                /\ chunk_counter' = chunk_counter + 1
           ELSE UNCHANGED <<sp_chunks, chunk_counter>>
    /\ sp_pc' = "break"
    /\ UNCHANGED <<body, idx, sp_result>>
    /\ UNCHANGED not_splitter

\* Lines 163-188: the nearest match becomes a chunk, after a pinned chunk of
\* the text before it, and the scan goes on after the match.
SplitMatch ==
    /\ sp_pc = "loop"
    /\ idx < Len(body)
    /\ \E nearest \in {Nearest(body, idx)} :
          /\ nearest # <<>>
          /\ LET nearest_kind == nearest[1]
                 nearest_span == nearest[2]
                 s == nearest_span[1]
                 e == nearest_span[2]
                 pre == PreChunks(body, idx, s, chunk_counter)
                 pinned == nearest_kind \in {"generate"}
             IN  /\ sp_chunks' = (sp_chunks \o pre) \o
                       << Chunk(nearest_kind, Slice(body, s, e), pinned,
                                make_chunk_id(nearest_kind, chunk_counter + Len(pre))) >>
                 /\ chunk_counter' = chunk_counter + Len(pre) + 1
                 /\ idx' = e
    /\ UNCHANGED <<sp_pc, body, sp_result>>
    /\ UNCHANGED not_splitter

\* Line 189, after the loop has ended.
SplitReturn ==
    /\ \/ sp_pc = "loop" /\ idx >= Len(body)
       \/ sp_pc = "break"
    /\ sp_result' = sp_chunks
    /\ sp_pc' = "done"
    /\ UNCHANGED <<body, idx, sp_chunks, chunk_counter>>
    /\ UNCHANGED not_splitter

NextSplit ==
    \/ SplitCall
    \/ SplitRemainder
    \/ SplitMatch
    \/ SplitReturn

\* A call, once made, runs until it returns.
SpecSplit ==
    /\ InitSplit
    /\ [][NextSplit]_vars
    /\ WF_vars(SplitRemainder \/ SplitMatch \/ SplitReturn)

SplitDone == sp_pc = "done"

RECURSIVE JoinText(_)

\* "".join(c.text for c in chunks)
JoinText(chunks) == IF chunks = <<>> THEN <<>> ELSE Head(chunks).text \o JoinText(Tail(chunks))

\* C30: every call of split_module_into_chunks returns, and the texts of the
\* returned chunks, joined in order, are the module text.
C30_LosslessSplit ==
    /\ (sp_pc = "loop") ~> SplitDone
    /\ [](SplitDone => JoinText(sp_result) = body)

\* A call has returned a pinned chunk of the text before a match and the
\* chunk of the match.
C30_Witness ==
    /\ SplitDone
    /\ Len(body) = 3
    /\ Len(sp_result) = 2
    /\ sp_result[1].kind = "pinned"
    /\ sp_result[2].kind = "always"
    /\ ~sp_result[2].pinned


\* ---------------------------------------------------------------------------
\* process_one_repository (src/normalize_hack_the_silicon_bug_branches.py)
\*
\* The remote repository is the environment: the paths git reports as changed
\* for a branch, and whether the chosen path exists at the branch point and at
\* the branch tip, are chosen when the pass over the branch asks for them.

\* The largest number of paths git reports as changed for a branch.
MaxChanged == 2

Readme == "README.md"

RiscvPeripherals == "piton/design/chip/tile/ariane/openpiton/riscv_peripherals.sv"

Clint == "piton/design/chip/tile/ariane/src/clint/clint.sv"

Dma == "piton/design/chip/tile/ariane/src/dma/dma.sv"

Sha256 == "piton/design/chip/tile/ariane/src/sha256/sha256.v"

\* The paths of the repository, in the order of sorted().
SortedPaths == <<Readme, RiscvPeripherals, Clint, Dma, Sha256>>

RepoPaths == {SortedPaths[k] : k \in 1..Len(SortedPaths)}

\* The branch names, in the order of sorted(): the duplicate branch, the two
\* branches with an override, and a branch without a special case.
SortedBranchNames ==
    <<"fix_cwe_1244_in_csr_regfile", "fix_cwe_1245", "fix_cwe_1317_in_clint", "fix_other">>

RepoNames == {"hackatdac19", "hackatdac21"}

\* sorted(S) for a set of paths.
RECURSIVE SortedFrom(_, _)

SortedFrom(S, k) ==
    IF k > Len(SortedPaths) THEN <<>>
    ELSE IF SortedPaths[k] \in S THEN <<SortedPaths[k]>> \o SortedFrom(S, k + 1)
    ELSE SortedFrom(S, k + 1)

sorted(S) == SortedFrom(S, 1)

\* Path(relpath).suffix
Suffix(path) == IF path = Readme THEN ".md" ELSE IF path = Sha256 THEN ".v" ELSE ".sv"

\* Line 167: the changed paths without README.md, sorted.
Kept_All(changed) == sorted(changed)

Kept(changed) == sorted(changed \ {Readme})

\* The pairs of paths the two overrides assert, and the path each selects.
ClintPair == {RiscvPeripherals, Clint}

Sha256Pair == {Sha256, Dma}

\* list_remote_branches: the names of a set of remote branches, sorted.
RECURSIVE SortedNames(_, _)

SortedNames(S, k) ==
    IF k > Len(SortedBranchNames) THEN <<>>
    ELSE IF SortedBranchNames[k] \in S THEN <<SortedBranchNames[k]>> \o SortedNames(S, k + 1)
    ELSE SortedNames(S, k + 1)

\* A file of the output folder of a branch; a file name is a stem and a suffix.
OutFile(branch, name) == <<branch, name>>

\* ---- inputs

InitExport ==
    /\ repo_name \in RepoNames
    /\ \E S \in SUBSET {SortedBranchNames[k] : k \in 1..Len(SortedBranchNames)} :
          branches = SortedNames(S, 1)
    /\ ex_pc = "loop"
    /\ branch_i = 0
    /\ branch_name = ""
    /\ changed_files = {}
    /\ written = {}
    /\ output_metadata_list = <<>>
    /\ skipped_count = 0
    /\ processed_count = 0
    /\ ChunkerIdle
    /\ ExtractorIdle
    /\ ScorerIdle
    /\ RenamerIdle
    /\ ReordererIdle
    /\ SplitterIdle

\* The sets of paths git may report for a branch.
ChangedSets == {S \in SUBSET RepoPaths : Cardinality(S) <= MaxChanged}

\* ---- actions: one pass of the loop over the branches (lines 148-273)

\* The pass skips the branch: skipped_count += 1; continue.
SkipBranch ==
    /\ skipped_count' = skipped_count + 1
    /\ UNCHANGED <<written, output_metadata_list, processed_count, ex_pc>>

\* Lines 213-273 for the chosen path: the branch-point version is written,
\* then the tip version, then the metadata; a missing version skips the branch.
ExportPath(relpath, at_base, at_tip) ==
    LET buggy_name == <<"buggy", Suffix(relpath)>>
        base_name == <<"base", Suffix(relpath)>>
    IN  IF ~at_base
        THEN SkipBranch
        ELSE IF ~at_tip
        THEN /\ written' = written \cup {OutFile(branch_name', buggy_name)}
             /\ skipped_count' = skipped_count + 1
             /\ UNCHANGED <<output_metadata_list, processed_count, ex_pc>>
        ELSE /\ written' = written \cup {OutFile(branch_name', buggy_name),
                                         OutFile(branch_name', base_name),
                                         OutFile(branch_name', <<"metadata", ".json">>)}
             /\ output_metadata_list' =
                    Append(output_metadata_list,
                           [branch_name |-> branch_name', source_path |-> relpath])
             /\ processed_count' = processed_count + 1
             /\ UNCHANGED <<skipped_count, ex_pc>>

\* Lines 148-159: the duplicate branch of hackatdac19 is skipped, whatever git
\* would report for it.
ExportSkipDuplicate ==
    /\ ex_pc = "loop"
    /\ branch_i < Len(branches)
    /\ branch_i' = branch_i + 1
    /\ branch_name' = branches[branch_i + 1]
    /\ branch_name' = "fix_cwe_1244_in_csr_regfile" /\ repo_name = "hackatdac19"
    /\ changed_files' \in ChangedSets
    /\ SkipBranch
    /\ UNCHANGED <<repo_name, branches>>
    /\ UNCHANGED not_exporter

\* Lines 161-273: every other branch.
ExportBranch ==
    /\ ex_pc = "loop"
    /\ branch_i < Len(branches)
    /\ branch_i' = branch_i + 1
    /\ branch_name' = branches[branch_i + 1]
    /\ ~(branch_name' = "fix_cwe_1244_in_csr_regfile" /\ repo_name = "hackatdac19")
    /\ changed_files' \in ChangedSets
    /\ \E at_base \in BOOLEAN, at_tip \in BOOLEAN :
          LET changed_files_list == Kept(changed_files')
          IN  IF Len(changed_files_list) = 0
              THEN SkipBranch
              ELSE IF Len(changed_files_list) > 1
              THEN IF branch_name' = "fix_cwe_1317_in_clint" /\ repo_name = "hackatdac21"
                   THEN IF {changed_files_list[k] : k \in 1..Len(changed_files_list)} = ClintPair
                        THEN ExportPath(Clint, at_base, at_tip)
                        ELSE /\ ex_pc' = "AssertionError"
                             /\ UNCHANGED <<written, output_metadata_list,
                                            skipped_count, processed_count>>
                   ELSE IF branch_name' = "fix_cwe_1245" /\ repo_name = "hackatdac21"
                   THEN IF {changed_files_list[k] : k \in 1..Len(changed_files_list)} = Sha256Pair
                        THEN ExportPath(Sha256, at_base, at_tip)
                        ELSE /\ ex_pc' = "AssertionError"
                             /\ UNCHANGED <<written, output_metadata_list,
                                            skipped_count, processed_count>>
                   ELSE SkipBranch
              ELSE ExportPath(changed_files_list[1], at_base, at_tip)
    /\ UNCHANGED <<repo_name, branches>>
    /\ UNCHANGED not_exporter

\* Lines 275-281, after the last branch.
ExportReturn ==
    /\ ex_pc = "loop"
    /\ branch_i = Len(branches)
    /\ ex_pc' = "done"
    /\ UNCHANGED <<repo_name, branches, branch_i, branch_name, changed_files, written,
                   output_metadata_list, skipped_count, processed_count>>
    /\ UNCHANGED not_exporter

NextExport ==
    \/ ExportSkipDuplicate
    \/ ExportBranch
    \/ ExportReturn

SpecExport == InitExport /\ [][NextExport]_vars

\* ---- C25

\* A pass over a branch has been made, and it is the last one made.
PassMade == branch_i > 0

\* The branch of the last pass has a metadata record.
Recorded == \E k \in 1..Len(output_metadata_list) : output_metadata_list[k].branch_name = branch_name

\* The files written for the branch of the last pass.
WrittenNames == {f[2][1] : f \in {g \in written : g[1] = branch_name}}

\* The branch of the last pass was exported: buggy.<ext>, base.<ext> and the
\* metadata record.
Exported ==
    /\ Recorded
    /\ WrittenNames = {"buggy", "base", "metadata"}

OverrideApplies(left) ==
    /\ repo_name = "hackatdac21"
    /\ \/ branch_name = "fix_cwe_1317_in_clint" /\ left = ClintPair
       \/ branch_name = "fix_cwe_1245" /\ left = Sha256Pair

====
